---- MODULE Spec2Model ----
(***************************************************************************)
(* Model of SentimentService (analyzeSentiment, categorizeFeedback,        *)
(* generateInsights) of insyte-pulse-bolt.                                 *)
(*                                                                         *)
(* A text is a sequence of one-character strings, so that lower-casing,    *)
(* the regular expressions, split, includes and the lexicon look-ups work  *)
(* on characters exactly as the TypeScript does.  Real numbers are exact   *)
(* fractions <<num, den>> with den > 0.                                    *)
(***************************************************************************)
EXTENDS Integers, Sequences, FiniteSets, TLC

(***************************************************************************)
(* Bounds of the explored input space.                                     *)
(***************************************************************************)
MaxPieces == 3       \* fragments per text handed to analyzeSentiment
MaxCatPieces == 2    \* fragments per text handed to categorizeFeedback directly
MaxCats == 4         \* length of the categories list of a hand-made analysis
MaxResponses == 2    \* length of the collection handed to generateInsights
MaxEmotionPieces == 3    \* fragments per text built from emotion keywords
MaxCategoryPieces == 3   \* fragments per text built from category keywords
MaxFields == 3       \* answer fields of one submission
MaxArbitrary == 2    \* fragments per text and items per list built from arbitrary strings
MaxCategorized == 3  \* items of a collection built for the top categories
MaxBucket == 4       \* items of one sentiment in a collection built for the percentages
MaxOlder == 10       \* items before the last 10 of a collection built for the trend
MaxStored == 11      \* rows of one form in table form_responses when analytics are asked
MaxCallers == 2      \* signed-in callers whose calls on the feedback service interleave
MaxFaults == 3       \* requests of the feedback service that fail in one run

(***************************************************************************)
(* Characters                                                              *)
(***************************************************************************)
LowerLetters ==
  {"a","b","c","d","e","f","g","h","i","j","k","l","m",
   "n","o","p","q","r","s","t","u","v","w","x","y","z"}

UpperLetters ==
  {"A","B","C","D","E","F","G","H","I","J","K","L","M",
   "N","O","P","Q","R","S","T","U","V","W","X","Y","Z"}

Digits == {"0","1","2","3","4","5","6","7","8","9"}

\* \w of a JavaScript regular expression without the u flag
WordChars == LowerLetters \cup UpperLetters \cup Digits \cup {"_"}

\* \s of a JavaScript regular expression (the ASCII part)
Whitespace == {" ", "\t", "\n", "\r", "\f"}

\* String.prototype.toLowerCase on one character
ToLowerChar(c) ==
  CASE c = "A" -> "a" [] c = "B" -> "b" [] c = "C" -> "c" [] c = "D" -> "d"
    [] c = "E" -> "e" [] c = "F" -> "f" [] c = "G" -> "g" [] c = "H" -> "h"
    [] c = "I" -> "i" [] c = "J" -> "j" [] c = "K" -> "k" [] c = "L" -> "l"
    [] c = "M" -> "m" [] c = "N" -> "n" [] c = "O" -> "o" [] c = "P" -> "p"
    [] c = "Q" -> "q" [] c = "R" -> "r" [] c = "S" -> "s" [] c = "T" -> "t"
    [] c = "U" -> "u" [] c = "V" -> "v" [] c = "W" -> "w" [] c = "X" -> "x"
    [] c = "Y" -> "y" [] c = "Z" -> "z" [] OTHER -> c

\* text.toLowerCase()
toLowerCase(s) == <<>> \o [i \in 1..Len(s) |-> ToLowerChar(s[i])]

\* s.replace(/[^\w\s]/g, ' ')
replaceNonWord(s) ==
  [i \in 1..Len(s) |->
     IF s[i] \in WordChars \cup Whitespace THEN s[i] ELSE " "]

\* s.split(/\s+/): the pieces between maximal runs of whitespace; a run at
\* the start or the end leaves an empty piece, and "" splits into [""].
RECURSIVE SplitFrom(_, _, _, _)
SplitFrom(s, i, cur, acc) ==
  IF i > Len(s) THEN Append(acc, cur)
  ELSE IF s[i] \in Whitespace
       THEN IF i > 1 /\ s[i-1] \in Whitespace
            THEN SplitFrom(s, i + 1, cur, acc)
            ELSE SplitFrom(s, i + 1, <<>>, Append(acc, cur))
       ELSE SplitFrom(s, i + 1, Append(cur, s[i]), acc)

split(s) == SplitFrom(s, 1, <<>>, <<>>)

\* Array.prototype.includes
ArrIncludes(arr, x) == \E i \in 1..Len(arr) : arr[i] = x

\* String.prototype.includes
StrIncludes(s, sub) ==
  \E i \in 0..(Len(s) - Len(sub)) : \A k \in 1..Len(sub) : s[i + k] = sub[k]

\* array.slice(from, to) with 0 <= from <= to (JavaScript indices, to excluded)
slice(arr, from, to) ==
  SubSeq(arr, from + 1, IF to < Len(arr) THEN to ELSE Len(arr))

(***************************************************************************)
(* Exact fractions                                                         *)
(***************************************************************************)
RECURSIVE GCD(_, _)
GCD(a, b) == IF b = 0 THEN a ELSE GCD(b, a % b)

Rat(n, d) == LET g == GCD(n, d) IN <<n \div g, d \div g>>

RatAdd(a, b) == Rat(a[1] * b[2] + b[1] * a[2], a[2] * b[2])

RatMul(a, b) == Rat(a[1] * b[1], a[2] * b[2])

RatLess(a, b) == a[1] * b[2] < b[1] * a[2]

RatLeq(a, b) == a[1] * b[2] <= b[1] * a[2]

\* Math.min
RatMin(a, b) == IF RatLess(b, a) THEN b ELSE a

(***************************************************************************)
(* Array.prototype.sort((a, b) => b.score - a.score) on an array of        *)
(* records with a score field: descending, and stable (equal scores keep   *)
(* their order).                                                           *)
(***************************************************************************)
InsertByScore(sorted, x) ==
  LET n == Cardinality({j \in 1..Len(sorted) : sorted[j].score >= x.score})
  IN  SubSeq(sorted, 1, n) \o <<x>> \o SubSeq(sorted, n + 1, Len(sorted))

RECURSIVE SortFrom(_, _, _)
SortFrom(arr, i, sorted) ==
  IF i > Len(arr) THEN sorted
  ELSE SortFrom(arr, i + 1, InsertByScore(sorted, arr[i]))

sortByScoreDesc(arr) == SortFrom(arr, 1, <<>>)

(***************************************************************************)
(* The constant tables of SentimentService                                 *)
(***************************************************************************)
POSITIVE_KEYWORDS ==
  << <<"e","x","c","e","l","l","e","n","t">>,  \* 'excellent'
     <<"a","m","a","z","i","n","g">>,  \* 'amazing'
     <<"f","a","n","t","a","s","t","i","c">>,  \* 'fantastic'
     <<"w","o","n","d","e","r","f","u","l">>,  \* 'wonderful'
     <<"g","r","e","a","t">>,  \* 'great'
     <<"g","o","o","d">>,  \* 'good'
     <<"l","o","v","e">>,  \* 'love'
     <<"p","e","r","f","e","c","t">>,  \* 'perfect'
     <<"o","u","t","s","t","a","n","d","i","n","g">>,  \* 'outstanding'
     <<"b","r","i","l","l","i","a","n","t">>,  \* 'brilliant'
     <<"a","w","e","s","o","m","e">>,  \* 'awesome'
     <<"s","u","p","e","r","b">>,  \* 'superb'
     <<"m","a","g","n","i","f","i","c","e","n","t">>,  \* 'magnificent'
     <<"t","e","r","r","i","f","i","c">>,  \* 'terrific'
     <<"p","l","e","a","s","e","d">>,  \* 'pleased'
     <<"s","a","t","i","s","f","i","e","d">>,  \* 'satisfied'
     <<"h","a","p","p","y">>,  \* 'happy'
     <<"d","e","l","i","g","h","t","e","d">>,  \* 'delighted'
     <<"i","m","p","r","e","s","s","e","d">>,  \* 'impressed'
     <<"r","e","c","o","m","m","e","n","d">>,  \* 'recommend'
     <<"h","e","l","p","f","u","l">>,  \* 'helpful'
     <<"f","r","i","e","n","d","l","y">>,  \* 'friendly'
     <<"p","r","o","f","e","s","s","i","o","n","a","l">>,  \* 'professional'
     <<"e","f","f","i","c","i","e","n","t">>,  \* 'efficient'
     <<"q","u","i","c","k">>,  \* 'quick'
     <<"f","a","s","t">>,  \* 'fast'
     <<"e","a","s","y">>,  \* 'easy'
     <<"s","m","o","o","t","h">>,  \* 'smooth'
     <<"s","e","a","m","l","e","s","s">>,  \* 'seamless'
     <<"i","n","t","u","i","t","i","v","e">> >>  \* 'intuitive'

NEGATIVE_KEYWORDS ==
  << <<"t","e","r","r","i","b","l","e">>,  \* 'terrible'
     <<"a","w","f","u","l">>,  \* 'awful'
     <<"h","o","r","r","i","b","l","e">>,  \* 'horrible'
     <<"b","a","d">>,  \* 'bad'
     <<"w","o","r","s","t">>,  \* 'worst'
     <<"h","a","t","e">>,  \* 'hate'
     <<"d","i","s","g","u","s","t","i","n","g">>,  \* 'disgusting'
     <<"p","a","t","h","e","t","i","c">>,  \* 'pathetic'
     <<"u","s","e","l","e","s","s">>,  \* 'useless'
     <<"b","r","o","k","e","n">>,  \* 'broken'
     <<"f","a","i","l","e","d">>,  \* 'failed'
     <<"e","r","r","o","r">>,  \* 'error'
     <<"p","r","o","b","l","e","m">>,  \* 'problem'
     <<"i","s","s","u","e">>,  \* 'issue'
     <<"b","u","g">>,  \* 'bug'
     <<"s","l","o","w">>,  \* 'slow'
     <<"d","i","f","f","i","c","u","l","t">>,  \* 'difficult'
     <<"c","o","n","f","u","s","i","n","g">>,  \* 'confusing'
     <<"f","r","u","s","t","r","a","t","e","d">>,  \* 'frustrated'
     <<"d","i","s","a","p","p","o","i","n","t","e","d">>,  \* 'disappointed'
     <<"a","n","g","r","y">>,  \* 'angry'
     <<"u","p","s","e","t">>,  \* 'upset'
     <<"a","n","n","o","y","e","d">>,  \* 'annoyed'
     <<"p","o","o","r">>,  \* 'poor'
     <<"l","a","c","k","i","n","g">>,  \* 'lacking'
     <<"m","i","s","s","i","n","g">>,  \* 'missing'
     <<"w","r","o","n","g">>,  \* 'wrong'
     <<"i","n","c","o","r","r","e","c","t">>,  \* 'incorrect'
     <<"u","n","a","c","c","e","p","t","a","b","l","e">>,  \* 'unacceptable'
     <<"u","n","p","r","o","f","e","s","s","i","o","n","a","l">>,  \* 'unprofessional'
     <<"r","u","d","e">>,  \* 'rude'
     <<"u","n","h","e","l","p","f","u","l">> >>  \* 'unhelpful'

\* the neutral lexicon with 'good', a word of the positive lexicon, added
NEUTRAL_KEYWORDS_WithGood ==
  << <<"o","k","a","y">>,  \* 'okay'
     <<"f","i","n","e">>,  \* 'fine'
     <<"a","v","e","r","a","g","e">>,  \* 'average'
     <<"n","o","r","m","a","l">>,  \* 'normal'
     <<"s","t","a","n","d","a","r","d">>,  \* 'standard'
     <<"t","y","p","i","c","a","l">>,  \* 'typical'
     <<"r","e","g","u","l","a","r">>,  \* 'regular'
     <<"m","o","d","e","r","a","t","e">>,  \* 'moderate'
     <<"a","c","c","e","p","t","a","b","l","e">>,  \* 'acceptable'
     <<"a","d","e","q","u","a","t","e">>,  \* 'adequate'
     <<"s","u","f","f","i","c","i","e","n","t">>,  \* 'sufficient'
     <<"r","e","a","s","o","n","a","b","l","e">>,  \* 'reasonable'
     <<"f","a","i","r">>,  \* 'fair'
     <<"d","e","c","e","n","t">>,  \* 'decent'
     <<"a","l","r","i","g","h","t">>,  \* 'alright'
     <<"g","o","o","d">> >>  \* 'good'

NEUTRAL_KEYWORDS ==
  << <<"o","k","a","y">>,  \* 'okay'
     <<"f","i","n","e">>,  \* 'fine'
     <<"a","v","e","r","a","g","e">>,  \* 'average'
     <<"n","o","r","m","a","l">>,  \* 'normal'
     <<"s","t","a","n","d","a","r","d">>,  \* 'standard'
     <<"t","y","p","i","c","a","l">>,  \* 'typical'
     <<"r","e","g","u","l","a","r">>,  \* 'regular'
     <<"m","o","d","e","r","a","t","e">>,  \* 'moderate'
     <<"a","c","c","e","p","t","a","b","l","e">>,  \* 'acceptable'
     <<"a","d","e","q","u","a","t","e">>,  \* 'adequate'
     <<"s","u","f","f","i","c","i","e","n","t">>,  \* 'sufficient'
     <<"r","e","a","s","o","n","a","b","l","e">>,  \* 'reasonable'
     <<"f","a","i","r">>,  \* 'fair'
     <<"d","e","c","e","n","t">>,  \* 'decent'
     <<"a","l","r","i","g","h","t">> >>  \* 'alright'

CATEGORY_KEYWORDS ==
  << [category |-> "User Experience", keywords |-> <<
         <<"u","i">>,  \* 'ui'
         <<"u","x">>,  \* 'ux'
         <<"i","n","t","e","r","f","a","c","e">>,  \* 'interface'
         <<"d","e","s","i","g","n">>,  \* 'design'
         <<"l","a","y","o","u","t">>,  \* 'layout'
         <<"n","a","v","i","g","a","t","i","o","n">>,  \* 'navigation'
         <<"u","s","a","b","i","l","i","t","y">>,  \* 'usability'
         <<"u","s","e","r","-","f","r","i","e","n","d","l","y">> >>],  \* 'user-friendly'
     [category |-> "Performance", keywords |-> <<
         <<"s","p","e","e","d">>,  \* 'speed'
         <<"f","a","s","t">>,  \* 'fast'
         <<"s","l","o","w">>,  \* 'slow'
         <<"l","o","a","d","i","n","g">>,  \* 'loading'
         <<"p","e","r","f","o","r","m","a","n","c","e">>,  \* 'performance'
         <<"l","a","g">>,  \* 'lag'
         <<"r","e","s","p","o","n","s","i","v","e">>,  \* 'responsive'
         <<"q","u","i","c","k">> >>],  \* 'quick'
     [category |-> "Customer Service", keywords |-> <<
         <<"s","u","p","p","o","r","t">>,  \* 'support'
         <<"s","e","r","v","i","c","e">>,  \* 'service'
         <<"s","t","a","f","f">>,  \* 'staff'
         <<"h","e","l","p">>,  \* 'help'
         <<"a","s","s","i","s","t","a","n","c","e">>,  \* 'assistance'
         <<"r","e","p","r","e","s","e","n","t","a","t","i","v","e">>,  \* 'representative'
         <<"a","g","e","n","t">> >>],  \* 'agent'
     [category |-> "Product Quality", keywords |-> <<
         <<"q","u","a","l","i","t","y">>,  \* 'quality'
         <<"p","r","o","d","u","c","t">>,  \* 'product'
         <<"f","e","a","t","u","r","e">>,  \* 'feature'
         <<"f","u","n","c","t","i","o","n","a","l","i","t","y">>,  \* 'functionality'
         <<"r","e","l","i","a","b","i","l","i","t","y">>,  \* 'reliability'
         <<"d","u","r","a","b","i","l","i","t","y">> >>],  \* 'durability'
     [category |-> "Pricing", keywords |-> <<
         <<"p","r","i","c","e">>,  \* 'price'
         <<"c","o","s","t">>,  \* 'cost'
         <<"e","x","p","e","n","s","i","v","e">>,  \* 'expensive'
         <<"c","h","e","a","p">>,  \* 'cheap'
         <<"v","a","l","u","e">>,  \* 'value'
         <<"m","o","n","e","y">>,  \* 'money'
         <<"a","f","f","o","r","d","a","b","l","e">>,  \* 'affordable'
         <<"p","r","i","c","i","n","g">> >>],  \* 'pricing'
     [category |-> "Technical Issues", keywords |-> <<
         <<"b","u","g">>,  \* 'bug'
         <<"e","r","r","o","r">>,  \* 'error'
         <<"c","r","a","s","h">>,  \* 'crash'
         <<"b","r","o","k","e","n">>,  \* 'broken'
         <<"g","l","i","t","c","h">>,  \* 'glitch'
         <<"t","e","c","h","n","i","c","a","l">>,  \* 'technical'
         <<"m","a","l","f","u","n","c","t","i","o","n">> >>],  \* 'malfunction'
     [category |-> "Delivery/Shipping", keywords |-> <<
         <<"d","e","l","i","v","e","r","y">>,  \* 'delivery'
         <<"s","h","i","p","p","i","n","g">>,  \* 'shipping'
         <<"p","a","c","k","a","g","e">>,  \* 'package'
         <<"a","r","r","i","v","e","d">>,  \* 'arrived'
         <<"d","e","l","a","y","e","d">>,  \* 'delayed'
         <<"o","n","-","t","i","m","e">> >>],  \* 'on-time'
     [category |-> "Communication", keywords |-> <<
         <<"c","o","m","m","u","n","i","c","a","t","i","o","n">>,  \* 'communication'
         <<"i","n","f","o","r","m","a","t","i","o","n">>,  \* 'information'
         <<"u","p","d","a","t","e","s">>,  \* 'updates'
         <<"n","o","t","i","f","i","c","a","t","i","o","n">>,  \* 'notification'
         <<"c","o","n","t","a","c","t">> >>],  \* 'contact'
     [category |-> "Accessibility", keywords |-> <<
         <<"a","c","c","e","s","s","i","b","i","l","i","t","y">>,  \* 'accessibility'
         <<"a","c","c","e","s","s","i","b","l","e">>,  \* 'accessible'
         <<"d","i","s","a","b","i","l","i","t","y">>,  \* 'disability'
         <<"s","c","r","e","e","n"," ","r","e","a","d","e","r">>,  \* 'screen reader'
         <<"k","e","y","b","o","a","r","d">> >>],  \* 'keyboard'
     [category |-> "Security", keywords |-> <<
         <<"s","e","c","u","r","i","t","y">>,  \* 'security'
         <<"p","r","i","v","a","c","y">>,  \* 'privacy'
         <<"s","a","f","e">>,  \* 'safe'
         <<"s","e","c","u","r","e">>,  \* 'secure'
         <<"p","r","o","t","e","c","t","i","o","n">>,  \* 'protection'
         <<"d","a","t","a">>,  \* 'data'
         <<"p","e","r","s","o","n","a","l">> >>] >>  \* 'personal'

EMOTION_KEYWORDS ==
  << [emotion |-> "joy", keywords |-> <<
         <<"h","a","p","p","y">>,  \* 'happy'
         <<"j","o","y">>,  \* 'joy'
         <<"e","x","c","i","t","e","d">>,  \* 'excited'
         <<"t","h","r","i","l","l","e","d">>,  \* 'thrilled'
         <<"d","e","l","i","g","h","t","e","d">>,  \* 'delighted'
         <<"p","l","e","a","s","e","d">>,  \* 'pleased'
         <<"c","h","e","e","r","f","u","l">>,  \* 'cheerful'
         <<"e","l","a","t","e","d">> >>],  \* 'elated'
     [emotion |-> "anger", keywords |-> <<
         <<"a","n","g","r","y">>,  \* 'angry'
         <<"m","a","d">>,  \* 'mad'
         <<"f","u","r","i","o","u","s">>,  \* 'furious'
         <<"i","r","r","i","t","a","t","e","d">>,  \* 'irritated'
         <<"a","n","n","o","y","e","d">>,  \* 'annoyed'
         <<"f","r","u","s","t","r","a","t","e","d">>,  \* 'frustrated'
         <<"o","u","t","r","a","g","e","d">> >>],  \* 'outraged'
     [emotion |-> "fear", keywords |-> <<
         <<"s","c","a","r","e","d">>,  \* 'scared'
         <<"a","f","r","a","i","d">>,  \* 'afraid'
         <<"w","o","r","r","i","e","d">>,  \* 'worried'
         <<"a","n","x","i","o","u","s">>,  \* 'anxious'
         <<"c","o","n","c","e","r","n","e","d">>,  \* 'concerned'
         <<"n","e","r","v","o","u","s">>,  \* 'nervous'
         <<"f","e","a","r","f","u","l">> >>],  \* 'fearful'
     [emotion |-> "sadness", keywords |-> <<
         <<"s","a","d">>,  \* 'sad'
         <<"d","i","s","a","p","p","o","i","n","t","e","d">>,  \* 'disappointed'
         <<"u","p","s","e","t">>,  \* 'upset'
         <<"d","e","p","r","e","s","s","e","d">>,  \* 'depressed'
         <<"u","n","h","a","p","p","y">>,  \* 'unhappy'
         <<"m","i","s","e","r","a","b","l","e">>,  \* 'miserable'
         <<"d","o","w","n">> >>],  \* 'down'
     [emotion |-> "surprise", keywords |-> <<
         <<"s","u","r","p","r","i","s","e","d">>,  \* 'surprised'
         <<"s","h","o","c","k","e","d">>,  \* 'shocked'
         <<"a","m","a","z","e","d">>,  \* 'amazed'
         <<"a","s","t","o","n","i","s","h","e","d">>,  \* 'astonished'
         <<"u","n","e","x","p","e","c","t","e","d">>,  \* 'unexpected'
         <<"w","o","w">> >>],  \* 'wow'
     [emotion |-> "disgust", keywords |-> <<
         <<"d","i","s","g","u","s","t","e","d">>,  \* 'disgusted'
         <<"r","e","v","o","l","t","e","d">>,  \* 'revolted'
         <<"a","p","p","a","l","l","e","d">>,  \* 'appalled'
         <<"r","e","p","u","l","s","e","d">>,  \* 'repulsed'
         <<"s","i","c","k","e","n","e","d">>,  \* 'sickened'
         <<"n","a","u","s","e","a","t","e","d">> >>] >>  \* 'nauseated'

stopWords ==
  << <<"t","h","i","s">>,  \* 'this'
     <<"t","h","a","t">>,  \* 'that'
     <<"w","i","t","h">>,  \* 'with'
     <<"h","a","v","e">>,  \* 'have'
     <<"w","i","l","l">>,  \* 'will'
     <<"f","r","o","m">>,  \* 'from'
     <<"t","h","e","y">>,  \* 'they'
     <<"k","n","o","w">>,  \* 'know'
     <<"w","a","n","t">>,  \* 'want'
     <<"b","e","e","n">>,  \* 'been'
     <<"g","o","o","d">>,  \* 'good'
     <<"m","u","c","h">>,  \* 'much'
     <<"s","o","m","e">>,  \* 'some'
     <<"t","i","m","e">>,  \* 'time'
     <<"v","e","r","y">>,  \* 'very'
     <<"w","h","e","n">>,  \* 'when'
     <<"c","o","m","e">>,  \* 'come'
     <<"h","e","r","e">>,  \* 'here'
     <<"j","u","s","t">>,  \* 'just'
     <<"l","i","k","e">>,  \* 'like'
     <<"l","o","n","g">>,  \* 'long'
     <<"m","a","k","e">>,  \* 'make'
     <<"m","a","n","y">>,  \* 'many'
     <<"o","v","e","r">>,  \* 'over'
     <<"s","u","c","h">>,  \* 'such'
     <<"t","a","k","e">>,  \* 'take'
     <<"t","h","a","n">>,  \* 'than'
     <<"t","h","e","m">>,  \* 'them'
     <<"w","e","l","l">>,  \* 'well'
     <<"w","e","r","e">> >>  \* 'were'

urgentKeywords ==
  << <<"u","r","g","e","n","t">>,  \* 'urgent'
     <<"c","r","i","t","i","c","a","l">>,  \* 'critical'
     <<"e","m","e","r","g","e","n","c","y">>,  \* 'emergency'
     <<"i","m","m","e","d","i","a","t","e","l","y">>,  \* 'immediately'
     <<"a","s","a","p">>,  \* 'asap'
     <<"b","r","o","k","e","n">>,  \* 'broken'
     <<"n","o","t"," ","w","o","r","k","i","n","g">> >>  \* 'not working'

highPriorityKeywords ==
  << <<"i","m","p","o","r","t","a","n","t">>,  \* 'important'
     <<"s","e","r","i","o","u","s">>,  \* 'serious'
     <<"m","a","j","o","r">>,  \* 'major'
     <<"s","i","g","n","i","f","i","c","a","n","t">>,  \* 'significant'
     <<"p","r","o","b","l","e","m">>,  \* 'problem'
     <<"i","s","s","u","e">> >>  \* 'issue'

Sentiments == {"positive", "neutral", "negative"}

(***************************************************************************)
(* analyzeSentiment                                                        *)
(***************************************************************************)
\* the tokens the sentiment score is computed from
sentimentWords(text) ==
  SelectSeq(split(replaceNonWord(toLowerCase(text))), LAMBDA w : Len(w) > 2)

\* the lexicon whose counter a token increments (the if / else-if chain)
wordScore(word) ==
  IF ArrIncludes(POSITIVE_KEYWORDS, word) THEN "positive"
  ELSE IF ArrIncludes(NEGATIVE_KEYWORDS, word) THEN "negative"
  ELSE IF ArrIncludes(NEUTRAL_KEYWORDS, word) THEN "neutral"
  ELSE "none"

scoreOf(words, lexicon) ==
  Cardinality({i \in 1..Len(words) : wordScore(words[i]) = lexicon})

\* decideSentiment without the cap Math.min(0.95, ...)
decideSentimentUncapped(positiveScore, negativeScore, neutralScore) ==
  LET totalScore == positiveScore + negativeScore + neutralScore
  IN  IF totalScore = 0
      THEN [sentiment |-> "neutral", confidence |-> Rat(5, 10)]
      ELSE IF positiveScore > negativeScore
      THEN [sentiment |-> "positive",
            confidence |-> RatAdd(Rat(5, 10),
                             RatMul(Rat(positiveScore, totalScore), Rat(5, 10)))]
      ELSE IF negativeScore > positiveScore
      THEN [sentiment |-> "negative",
            confidence |-> RatAdd(Rat(5, 10),
                             RatMul(Rat(negativeScore, totalScore), Rat(5, 10)))]
      ELSE [sentiment |-> "neutral", confidence |-> Rat(6, 10)]

\* decideSentiment with positiveScore >= negativeScore for positiveScore > negativeScore
decideSentimentTiePositive(positiveScore, negativeScore, neutralScore) ==
  LET totalScore == positiveScore + negativeScore + neutralScore
  IN  IF totalScore = 0
      THEN [sentiment |-> "neutral", confidence |-> Rat(5, 10)]
      ELSE IF positiveScore >= negativeScore
      THEN [sentiment |-> "positive",
            confidence |-> RatMin(Rat(95, 100),
                             RatAdd(Rat(5, 10),
                               RatMul(Rat(positiveScore, totalScore), Rat(5, 10))))]
      ELSE [sentiment |-> "negative",
            confidence |-> RatMin(Rat(95, 100),
                             RatAdd(Rat(5, 10),
                               RatMul(Rat(negativeScore, totalScore), Rat(5, 10))))]

\* decideSentiment with the confidence (score / total) * 0.5, the base 0.5 forgotten
decideSentimentNoBase(positiveScore, negativeScore, neutralScore) ==
  LET totalScore == positiveScore + negativeScore + neutralScore
  IN  IF totalScore = 0
      THEN [sentiment |-> "neutral", confidence |-> Rat(5, 10)]
      ELSE IF positiveScore > negativeScore
      THEN [sentiment |-> "positive",
            confidence |-> RatMin(Rat(95, 100),
                             RatMul(Rat(positiveScore, totalScore), Rat(5, 10)))]
      ELSE IF negativeScore > positiveScore
      THEN [sentiment |-> "negative",
            confidence |-> RatMin(Rat(95, 100),
                             RatMul(Rat(negativeScore, totalScore), Rat(5, 10)))]
      ELSE [sentiment |-> "neutral", confidence |-> Rat(6, 10)]

\* the sentiment and the confidence decided from the three counters
decideSentiment(positiveScore, negativeScore, neutralScore) ==
  LET totalScore == positiveScore + negativeScore + neutralScore
  IN  IF totalScore = 0
      THEN [sentiment |-> "neutral", confidence |-> Rat(5, 10)]
      ELSE IF positiveScore > negativeScore
      THEN [sentiment |-> "positive",
            confidence |-> RatMin(Rat(95, 100),
                             RatAdd(Rat(5, 10),
                               RatMul(Rat(positiveScore, totalScore), Rat(5, 10))))]
      ELSE IF negativeScore > positiveScore
      THEN [sentiment |-> "negative",
            confidence |-> RatMin(Rat(95, 100),
                             RatAdd(Rat(5, 10),
                               RatMul(Rat(negativeScore, totalScore), Rat(5, 10))))]
      ELSE [sentiment |-> "neutral", confidence |-> Rat(6, 10)]

\* new RegExp(`\\b${keyword}\\b`, 'gi'): is position i (1..Len) a word character
IsWordAt(s, i) == i >= 1 /\ i <= Len(s) /\ s[i] \in WordChars

\* \b between position i and position i + 1
WordBoundary(s, i) == IsWordAt(s, i) # IsWordAt(s, i + 1)

\* MatchesAt for a pattern built without the two \b
MatchesAtAnywhere(s, keyword, i) ==
  /\ i + Len(keyword) <= Len(s)
  /\ \A k \in 1..Len(keyword) : ToLowerChar(s[i + k]) = ToLowerChar(keyword[k])

\* the keyword matches at positions i+1 .. i+Len(keyword), case-insensitively
MatchesAt(s, keyword, i) ==
  /\ i + Len(keyword) <= Len(s)
  /\ WordBoundary(s, i)
  /\ WordBoundary(s, i + Len(keyword))
  /\ \A k \in 1..Len(keyword) : ToLowerChar(s[i + k]) = ToLowerChar(keyword[k])

\* lowerText.match(regex).length: the matches found scanning left to right,
\* each scan resuming after the previous match
RECURSIVE CountMatchesFrom(_, _, _)
CountMatchesFrom(s, keyword, i) ==
  IF i + Len(keyword) > Len(s) THEN 0
  ELSE IF MatchesAt(s, keyword, i)
       THEN 1 + CountMatchesFrom(s, keyword, i + Len(keyword))
       ELSE CountMatchesFrom(s, keyword, i + 1)

countMatches(s, keyword) == CountMatchesFrom(s, keyword, 0)

\* keywords.reduce((acc, keyword) => acc + matches, 0)
RECURSIVE CategoryScoreFrom(_, _, _)
CategoryScoreFrom(lowerText, keywords, k) ==
  IF k > Len(keywords) THEN 0
  ELSE countMatches(lowerText, keywords[k])
         + CategoryScoreFrom(lowerText, keywords, k + 1)

categoryScore(lowerText, keywords) == CategoryScoreFrom(lowerText, keywords, 1)

extractCategories(text) ==
  LET lowerText == toLowerCase(text)
      scored == [k \in 1..Len(CATEGORY_KEYWORDS) |->
                   [category |-> CATEGORY_KEYWORDS[k].category,
                    score |-> categoryScore(lowerText, CATEGORY_KEYWORDS[k].keywords)]]
      foundCategories == SelectSeq(scored, LAMBDA c : c.score > 0)
      sorted == sortByScoreDesc(foundCategories)
  IN  slice([k \in 1..Len(sorted) |-> sorted[k].category], 0, 3)

\* the value of a digit
DigitValue(c) ==
  CASE c = "0" -> 0 [] c = "1" -> 1 [] c = "2" -> 2 [] c = "3" -> 3
    [] c = "4" -> 4 [] c = "5" -> 5 [] c = "6" -> 6 [] c = "7" -> 7
    [] c = "8" -> 8 [] c = "9" -> 9

\* numeric order of two canonical decimal strings (no leading zero)
DecimalLess(a, b) ==
  \/ Len(a) < Len(b)
  \/ /\ Len(a) = Len(b)
     /\ \E i \in 1..Len(a) :
          /\ DigitValue(a[i]) < DigitValue(b[i])
          /\ \A j \in 1..(i - 1) : a[j] = b[j]

\* 2^32 - 1
ArrayIndexLimit == <<"4","2","9","4","9","6","7","2","9","5">>

\* a property key that is an array index: a canonical decimal below 2^32 - 1
IsArrayIndex(w) ==
  /\ Len(w) >= 1
  /\ \A i \in 1..Len(w) : w[i] \in Digits
  /\ (Len(w) > 1 => w[1] # "0")
  /\ DecimalLess(w, ArrayIndexLimit)

\* the distinct elements of an array in the order of their first occurrence
RECURSIVE DistinctFrom(_, _, _)
DistinctFrom(arr, i, acc) ==
  IF i > Len(arr) THEN acc
  ELSE DistinctFrom(arr, i + 1,
         IF ArrIncludes(acc, arr[i]) THEN acc ELSE Append(acc, arr[i]))

distinct(arr) == DistinctFrom(arr, 1, <<>>)

\* array-index keys in ascending numeric order
RECURSIVE AscendingKeys(_)
AscendingKeys(keys) ==
  IF keys = {} THEN <<>>
  ELSE LET least == CHOOSE k \in keys :
                      \A other \in keys : ~DecimalLess(other, k)
       IN  <<least>> \o AscendingKeys(keys \ {least})

\* Object.entries(wordCount): the keys that are array indices first, in
\* ascending numeric order, then the other keys in insertion order.
\* Tokens are never names inherited from Object.prototype here.
wordCountEntries(filteredWords) ==
  LET inserted == distinct(filteredWords)
      indexKeys == {inserted[i] : i \in {j \in 1..Len(inserted) : IsArrayIndex(inserted[j])}}
      keys == AscendingKeys(indexKeys)
                \o SelectSeq(inserted, LAMBDA w : ~IsArrayIndex(w))
  IN  [k \in 1..Len(keys) |->
         [word |-> keys[k],
          score |-> Cardinality({i \in 1..Len(filteredWords) : filteredWords[i] = keys[k]})]]

\* extractKeywords without the filter word.length > 3
extractKeywordsUnfiltered(text) ==
  LET words == split(replaceNonWord(toLowerCase(text)))
      filteredWords == SelectSeq(words, LAMBDA w : ~ArrIncludes(stopWords, w))
      sorted == slice(sortByScoreDesc(wordCountEntries(filteredWords)), 0, 5)
  IN  [k \in 1..Len(sorted) |-> sorted[k].word]

extractKeywords(text) ==
  LET words == SelectSeq(split(replaceNonWord(toLowerCase(text))),
                         LAMBDA w : Len(w) > 3)
      filteredWords == SelectSeq(words, LAMBDA w : ~ArrIncludes(stopWords, w))
      sorted == slice(sortByScoreDesc(wordCountEntries(filteredWords)), 0, 5)
  IN  [k \in 1..Len(sorted) |-> sorted[k].word]

\* emotionScore without Math.min
emotionScoreUncapped(lowerText, keywords) ==
  LET score == Cardinality({k \in 1..Len(keywords) : StrIncludes(lowerText, keywords[k])})
  IN  RatMul(Rat(score, 1), Rat(3, 10))

\* Math.min(1, score * 0.3) for one emotion
emotionScore(lowerText, keywords) ==
  LET score == Cardinality({k \in 1..Len(keywords) : StrIncludes(lowerText, keywords[k])})
  IN  RatMin(Rat(1, 1), RatMul(Rat(score, 1), Rat(3, 10)))

EmotionNames == {EMOTION_KEYWORDS[k].emotion : k \in 1..Len(EMOTION_KEYWORDS)}

analyzeEmotions(text) ==
  LET lowerText == toLowerCase(text)
  IN  [e \in EmotionNames |->
         LET k == CHOOSE j \in 1..Len(EMOTION_KEYWORDS) : EMOTION_KEYWORDS[j].emotion = e
         IN  emotionScore(lowerText, EMOTION_KEYWORDS[k].keywords)]

analyzeSentiment(text) ==
  LET words == sentimentWords(text)
      decided == decideSentiment(scoreOf(words, "positive"),
                                 scoreOf(words, "negative"),
                                 scoreOf(words, "neutral"))
  IN  [sentiment |-> decided.sentiment,
       confidence |-> decided.confidence,
       categories |-> extractCategories(text),
       keywords |-> extractKeywords(text),
       emotions |-> analyzeEmotions(text)]

(***************************************************************************)
(* categorizeFeedback                                                      *)
(***************************************************************************)
\* generateSuggestedActions without .slice(0, 5)
generateSuggestedActionsUncut(sentiment, category, urgency) ==
  LET base ==
        IF sentiment.sentiment = "negative"
        THEN <<"Follow up with customer within 24 hours",
               "Investigate the reported issue">>
             \o (IF urgency = "critical"
                 THEN <<"Escalate to management immediately",
                        "Provide immediate resolution or workaround">>
                 ELSE <<>>)
        ELSE IF sentiment.sentiment = "positive"
        THEN <<"Thank the customer for positive feedback",
               "Share feedback with relevant team",
               "Consider featuring as testimonial">>
        ELSE <<>>
      specific ==
        CASE category = "Technical Issues" ->
               <<"Forward to technical support team",
                 "Create bug report if applicable">>
          [] category = "Customer Service" ->
               <<"Review with customer service manager",
                 "Provide additional training if needed">>
          [] category = "Product Quality" ->
               <<"Forward to product development team",
                 "Consider for product roadmap">>
          [] category = "User Experience" ->
               <<"Share with UX/UI design team",
                 "Consider for next design iteration">>
          [] category = "Performance" ->
               <<"Forward to engineering team",
                 "Monitor system performance metrics">>
          [] OTHER -> <<>>
  IN  distinct(base \o specific)

\* generateSuggestedActions escalating every negative feedback
generateSuggestedActionsEscalating(sentiment, category, urgency) ==
  LET base ==
        IF sentiment.sentiment = "negative"
        THEN <<"Follow up with customer within 24 hours",
               "Investigate the reported issue">>
             \o <<"Escalate to management immediately",
                  "Provide immediate resolution or workaround">>
        ELSE IF sentiment.sentiment = "positive"
        THEN <<"Thank the customer for positive feedback",
               "Share feedback with relevant team",
               "Consider featuring as testimonial">>
        ELSE <<>>
      specific ==
        CASE category = "Technical Issues" ->
               <<"Forward to technical support team",
                 "Create bug report if applicable">>
          [] category = "Customer Service" ->
               <<"Review with customer service manager",
                 "Provide additional training if needed">>
          [] category = "Product Quality" ->
               <<"Forward to product development team",
                 "Consider for product roadmap">>
          [] category = "User Experience" ->
               <<"Share with UX/UI design team",
                 "Consider for next design iteration">>
          [] category = "Performance" ->
               <<"Forward to engineering team",
                 "Monitor system performance metrics">>
          [] OTHER -> <<>>
  IN  slice(distinct(base \o specific), 0, 5)

\* [...new Set(actions)]: duplicates removed, first occurrences kept in order
generateSuggestedActions(sentiment, category, urgency) ==
  LET base ==
        IF sentiment.sentiment = "negative"
        THEN <<"Follow up with customer within 24 hours",
               "Investigate the reported issue">>
             \o (IF urgency = "critical"
                 THEN <<"Escalate to management immediately",
                        "Provide immediate resolution or workaround">>
                 ELSE <<>>)
        ELSE IF sentiment.sentiment = "positive"
        THEN <<"Thank the customer for positive feedback",
               "Share feedback with relevant team",
               "Consider featuring as testimonial">>
        ELSE <<>>
      specific ==
        CASE category = "Technical Issues" ->
               <<"Forward to technical support team",
                 "Create bug report if applicable">>
          [] category = "Customer Service" ->
               <<"Review with customer service manager",
                 "Provide additional training if needed">>
          [] category = "Product Quality" ->
               <<"Forward to product development team",
                 "Consider for product roadmap">>
          [] category = "User Experience" ->
               <<"Share with UX/UI design team",
                 "Consider for next design iteration">>
          [] category = "Performance" ->
               <<"Forward to engineering team",
                 "Monitor system performance metrics">>
          [] OTHER -> <<>>
  IN  slice(distinct(base \o specific), 0, 5)

\* urgentKeywords.some(keyword => lowerText.includes(keyword))
someIncluded(keywords, lowerText) ==
  \E k \in 1..Len(keywords) : StrIncludes(lowerText, keywords[k])

\* decideUrgency with the high-priority vocabulary tested before the sentiment
decideUrgencyKeywordsFirst(lowerText, sentiment) ==
  IF someIncluded(urgentKeywords, lowerText) THEN "critical"
  ELSE IF someIncluded(highPriorityKeywords, lowerText) THEN "medium"
  ELSE IF sentiment.sentiment = "negative" /\ RatLess(Rat(8, 10), sentiment.confidence)
       THEN "high"
  ELSE IF sentiment.sentiment = "negative" THEN "medium"
  ELSE "low"

\* decideUrgency without the last rule, negative gives medium
decideUrgencyNegativeLow(lowerText, sentiment) ==
  IF someIncluded(urgentKeywords, lowerText) THEN "critical"
  ELSE IF sentiment.sentiment = "negative" /\ RatLess(Rat(8, 10), sentiment.confidence)
       THEN "high"
  ELSE IF someIncluded(highPriorityKeywords, lowerText) THEN "medium"
  ELSE "low"

decideUrgency(lowerText, sentiment) ==
  IF someIncluded(urgentKeywords, lowerText) THEN "critical"
  ELSE IF sentiment.sentiment = "negative" /\ RatLess(Rat(8, 10), sentiment.confidence)
       THEN "high"
  ELSE IF someIncluded(highPriorityKeywords, lowerText) THEN "medium"
  ELSE IF sentiment.sentiment = "negative" THEN "medium"
  ELSE "low"

\* decideActionRequired with the threshold 0.8 of the urgency rule
decideActionRequiredStrict(urgency, sentiment) ==
  \/ urgency = "critical"
  \/ urgency = "high"
  \/ (sentiment.sentiment = "negative" /\ RatLess(Rat(8, 10), sentiment.confidence))

decideActionRequired(urgency, sentiment) ==
  \/ urgency = "critical"
  \/ urgency = "high"
  \/ (sentiment.sentiment = "negative" /\ RatLess(Rat(7, 10), sentiment.confidence))

\* categories[0] || 'General Feedback': an absent or empty first entry is falsy
primaryCategoryOf(categories) ==
  IF Len(categories) > 0 /\ categories[1] # ""
  THEN categories[1] ELSE "General Feedback"

\* categorizeFeedback matching the vocabularies against the text as written
categorizeFeedbackCaseSensitive(text, sentiment) ==
  LET categories == sentiment.categories
      primaryCategory == primaryCategoryOf(categories)
      secondaryCategories == slice(categories, 1, 3)
      urgency == decideUrgency(text, sentiment)
  IN  [primaryCategory |-> primaryCategory,
       secondaryCategories |-> secondaryCategories,
       urgency |-> urgency,
       actionRequired |-> decideActionRequired(urgency, sentiment),
       suggestedActions |-> generateSuggestedActions(sentiment, primaryCategory, urgency)]

\* categorizeFeedback with categories.slice(1) for categories.slice(1, 3)
categorizeFeedbackAllSecondary(text, sentiment) ==
  LET categories == sentiment.categories
      primaryCategory == primaryCategoryOf(categories)
      secondaryCategories == slice(categories, 1, Len(categories))
      urgency == decideUrgency(toLowerCase(text), sentiment)
  IN  [primaryCategory |-> primaryCategory,
       secondaryCategories |-> secondaryCategories,
       urgency |-> urgency,
       actionRequired |-> decideActionRequired(urgency, sentiment),
       suggestedActions |-> generateSuggestedActions(sentiment, primaryCategory, urgency)]

categorizeFeedback(text, sentiment) ==
  LET categories == sentiment.categories
      primaryCategory == primaryCategoryOf(categories)
      secondaryCategories == slice(categories, 1, 3)
      urgency == decideUrgency(toLowerCase(text), sentiment)
  IN  [primaryCategory |-> primaryCategory,
       secondaryCategories |-> secondaryCategories,
       urgency |-> urgency,
       actionRequired |-> decideActionRequired(urgency, sentiment),
       suggestedActions |-> generateSuggestedActions(sentiment, primaryCategory, urgency)]

(***************************************************************************)
(* generateInsights                                                        *)
(*                                                                         *)
(* A response is [sentiment, metadata]: sentiment is one of the three      *)
(* values or "null"; metadata is a record holding any of urgency,          *)
(* actionRequired and categories (a missing metadata is the empty record). *)
(***************************************************************************)
EmptyMetadata == [k \in {} |-> TRUE]

\* response.metadata?.field, with "undefined" for a missing string field
HasField(response, field) == field \in DOMAIN response.metadata

\* isUrgent counting critical only
isUrgentCriticalOnly(response) ==
  /\ HasField(response, "urgency")
  /\ response.metadata.urgency = "critical"

isUrgent(response) ==
  /\ HasField(response, "urgency")
  /\ response.metadata.urgency \in {"critical", "high"}

isActionable(response) ==
  HasField(response, "actionRequired") /\ response.metadata.actionRequired

\* CategoryPairsFrom pushing the sentiment of the item as it is, without
\* || 'neutral'
RECURSIVE CategoryPairsFromAsStored(_, _)
CategoryPairsFromAsStored(responses, i) ==
  IF i > Len(responses) THEN <<>>
  ELSE LET response == responses[i]
           categories == IF HasField(response, "categories")
                         THEN response.metadata.categories ELSE <<>>
       IN  [k \in 1..Len(categories) |->
              [category |-> categories[k], sentiment |-> response.sentiment]]
           \o CategoryPairsFromAsStored(responses, i + 1)

\* the (category, sentiment) pairs pushed into categoryMap, in encounter order
RECURSIVE CategoryPairsFrom(_, _)
CategoryPairsFrom(responses, i) ==
  IF i > Len(responses) THEN <<>>
  ELSE LET response == responses[i]
           categories == IF HasField(response, "categories")
                         THEN response.metadata.categories ELSE <<>>
           sentiment == IF response.sentiment = "null"
                        THEN "neutral" ELSE response.sentiment
       IN  [k \in 1..Len(categories) |->
              [category |-> categories[k], sentiment |-> sentiment]]
           \o CategoryPairsFrom(responses, i + 1)

\* dominantSentiment with the counters declared negative, neutral, positive
dominantSentimentNegativeFirst(sentiments) ==
  LET count(s) == Cardinality({i \in 1..Len(sentiments) : sentiments[i] = s})
      entries == <<[name |-> "negative", score |-> count("negative")],
                   [name |-> "neutral", score |-> count("neutral")],
                   [name |-> "positive", score |-> count("positive")]>>
  IN  sortByScoreDesc(entries)[1].name

\* Object.entries(sentimentCounts).sort(([, a], [, b]) => b - a)[0][0]
dominantSentiment(sentiments) ==
  LET count(s) == Cardinality({i \in 1..Len(sentiments) : sentiments[i] = s})
      entries == <<[name |-> "positive", score |-> count("positive")],
                   [name |-> "neutral", score |-> count("neutral")],
                   [name |-> "negative", score |-> count("negative")]>>
  IN  sortByScoreDesc(entries)[1].name

\* Object.entries(categoryMap) mapped, sorted by count and cut to 5
topCategoriesOf(responses) ==
  LET pairs == CategoryPairsFrom(responses, 1)
      names == distinct([k \in 1..Len(pairs) |-> pairs[k].category])
      entry(category) ==
        LET mine == SelectSeq(pairs, LAMBDA p : p.category = category)
        IN  [category |-> category,
             score |-> Len(mine),
             sentiment |-> dominantSentiment([k \in 1..Len(mine) |-> mine[k].sentiment])]
      sorted == slice(sortByScoreDesc([k \in 1..Len(names) |-> entry(names[k])]), 0, 5)
  IN  [k \in 1..Len(sorted) |->
         [category |-> sorted[k].category,
          count |-> sorted[k].score,
          sentiment |-> sorted[k].sentiment]]

\* roundPercent with Math.floor for Math.round
roundPercentFloor(count, total) == (100 * count) \div total

\* Math.round((count / total) * 100): the nearest integer, halves upwards
roundPercent(count, total) == (200 * count + total) \div (2 * total)

\* the fraction of positive items of a non-empty window
positiveShare(window) ==
  Rat(Cardinality({i \in 1..Len(window) : window[i].sentiment = "positive"}),
      Len(window))

TrendWindow == 10

\* recentPositive > olderPositive + 0.1 on doubles.  Both shares are
\* quotients of counts (the divisor at most 30 here), so the comparison of the
\* doubles is the comparison of the exact values unless these are equal; when
\* they are equal the rounding of the sum decides, and of the tenths only
\* 0.7 + 0.1 = 0.7999999999999999 falls below its exact value.
exceedsByTenth(recentPositive, olderPositive) ==
  \/ RatLess(RatAdd(olderPositive, Rat(1, 10)), recentPositive)
  \/ (olderPositive = Rat(7, 10) /\ recentPositive = Rat(8, 10))

\* recentPositive < olderPositive - 0.1 on doubles: of the tenths only
\* 0.4 - 0.1 = 0.30000000000000004 and 0.8 - 0.1 = 0.7000000000000001 rise
\* above their exact value.
fallsShortByTenth(recentPositive, olderPositive) ==
  \/ RatLess(RatAdd(recentPositive, Rat(1, 10)), olderPositive)
  \/ (olderPositive = Rat(4, 10) /\ recentPositive = Rat(3, 10))
  \/ (olderPositive = Rat(8, 10) /\ recentPositive = Rat(7, 10))

sentimentTrendOf(responses) ==
  LET n == Len(responses)
      cut == IF n > TrendWindow THEN n - TrendWindow ELSE 0
      recentResponses == SubSeq(responses, cut + 1, n)
      olderResponses == SubSeq(responses, 1, cut)
  IN  IF Len(recentResponses) > 0 /\ Len(olderResponses) > 0
      THEN LET recentPositive == positiveShare(recentResponses)
               olderPositive == positiveShare(olderResponses)
           IN  IF exceedsByTenth(recentPositive, olderPositive)
               THEN "improving"
               ELSE IF fallsShortByTenth(recentPositive, olderPositive)
               THEN "declining"
               ELSE "stable"
      ELSE "stable"

\* the snapshot returned for an empty collection
emptyInsights ==
  [overallSentiment |-> [positive |-> 0, neutral |-> 0, negative |-> 0],
   topCategories |-> <<>>,
   urgentIssues |-> 0,
   actionableItems |-> 0,
   trendAnalysis |-> [sentimentTrend |-> "stable", categoryTrends |-> <<>>]]

\* the property names every plain object inherits from Object.prototype
ObjectPrototypeNames ==
  {"constructor", "__proto__", "hasOwnProperty", "isPrototypeOf",
   "propertyIsEnumerable", "toLocaleString", "toString", "valueOf",
   "__defineGetter__", "__defineSetter__", "__lookupGetter__", "__lookupSetter__"}

\* categoryMap is a plain object: for a category named like an inherited
\* property, categoryMap[category] is that property, so no entry is made and
\* categoryMap[category].sentiments.push(...) reads push of undefined
throwsOnCategory(responses) ==
  LET pairs == CategoryPairsFrom(responses, 1)
  IN  \E k \in 1..Len(pairs) : pairs[k].category \in ObjectPrototypeNames

\* the call ends with an uncaught TypeError
TypeErrorThrown == [error |-> "TypeError"]

\* the snapshot computed from a non-empty collection
computedInsights(responses) ==
  LET total == Len(responses)
      sentimentCount(s) ==
        Cardinality({i \in 1..Len(responses) : responses[i].sentiment = s})
  IN  IF throwsOnCategory(responses) THEN TypeErrorThrown ELSE
      [overallSentiment |->
         [positive |-> roundPercent(sentimentCount("positive"), total),
          neutral |-> roundPercent(sentimentCount("neutral"), total),
          negative |-> roundPercent(sentimentCount("negative"), total)],
       topCategories |-> topCategoriesOf(responses),
       urgentIssues |->
         Cardinality({i \in 1..Len(responses) : isUrgent(responses[i])}),
       actionableItems |->
         Cardinality({i \in 1..Len(responses) : isActionable(responses[i])}),
       trendAnalysis |-> [sentimentTrend |-> sentimentTrendOf(responses),
                          categoryTrends |-> <<>>]]

\* generateInsights without the early return: 0 / 0 makes every percentage
\* NaN, written -1 here
generateInsightsUnguarded(responses) ==
  IF Len(responses) = 0
  THEN [emptyInsights EXCEPT
          !.overallSentiment = [positive |-> 0 - 1, neutral |-> 0 - 1, negative |-> 0 - 1]]
  ELSE computedInsights(responses)

generateInsights(responses) ==
  IF Len(responses) = 0 THEN emptyInsights ELSE computedInsights(responses)

(***************************************************************************)
(* FormService.submitResponse                                              *)
(*                                                                         *)
(* responseData is kept as the list of its values in key order; a value is *)
(* [type |-> "string", value |-> characters] or [type |-> "number",        *)
(* number |-> n].  null is the record Null, and a sentiment that is null is *)
(* the string "null" as in the collections of generateInsights.            *)
(***************************************************************************)
Null == [null |-> TRUE]

\* a variable or a field that holds nothing yet
Unset == [unset |-> TRUE]

EmptyObject == [k \in {} |-> TRUE]

\* Array.prototype.join(' ')
RECURSIVE join(_)
join(arr) ==
  IF Len(arr) = 0 THEN <<>>
  ELSE IF Len(arr) = 1 THEN arr[1]
       ELSE arr[1] \o <<" ">> \o join(Tail(arr))

\* the filter typeof value === 'string' && value.length >= 10
qualifiesFromTen(value) == value.type = "string" /\ Len(value.value) >= 10

\* typeof value === 'string' && value.length > 10
qualifies(value) == value.type = "string" /\ Len(value.value) > 10

textResponsesOf(responseData) ==
  LET kept == SelectSeq(responseData, qualifies)
  IN  join([i \in 1..Len(kept) |-> kept[i].value])

RECURSIVE SumOf(_)
SumOf(numbers) == IF Len(numbers) = 0 THEN 0 ELSE numbers[1].number + SumOf(Tail(numbers))

\* the mean of the numeric values between 1 and 10, null without any
overallRatingOf(responseData) ==
  LET ratingValues == SelectSeq(responseData,
                        LAMBDA v : v.type = "number" /\ v.number >= 1 /\ v.number <= 10)
  IN  IF Len(ratingValues) > 0
      THEN [rating |-> Rat(SumOf(ratingValues), Len(ratingValues))]
      ELSE Null

\* the row handed to insert into form_responses
responseRow(formId, responseData, source) ==
  LET textResponses == textResponsesOf(responseData)
      analyzed == Len(textResponses) > 10
      sentimentAnalysis == IF analyzed THEN analyzeSentiment(textResponses) ELSE Null
      categorization == IF analyzed
                        THEN categorizeFeedback(textResponses, sentimentAnalysis)
                        ELSE Null
  IN  [form_id |-> formId,
       response_source |-> source,
       sentiment |-> IF analyzed THEN sentimentAnalysis.sentiment ELSE "null",
       overall_rating |-> overallRatingOf(responseData),
       is_complete |-> TRUE,
       metadata |->
         [sentimentAnalysis |-> sentimentAnalysis,
          categorization |-> categorization,
          categories |-> IF analyzed /\ categorization.primaryCategory # ""
                         THEN <<categorization.primaryCategory>>
                                \o categorization.secondaryCategories
                         ELSE <<>>,
          urgency |-> IF analyzed THEN categorization.urgency ELSE "low",
          actionRequired |-> IF analyzed THEN categorization.actionRequired ELSE FALSE,
          suggestedActions |-> IF analyzed THEN categorization.suggestedActions ELSE <<>>,
          keywords |-> IF analyzed THEN sentimentAnalysis.keywords ELSE <<>>,
          emotions |-> IF analyzed THEN sentimentAnalysis.emotions ELSE EmptyObject]]

\* JSON.stringify of a non-negative integer: its decimal digits
RECURSIVE NumberToString(_)
NumberToString(n) ==
  LET digit == <<"0","1","2","3","4","5","6","7","8","9">>[(n % 10) + 1]
  IN  IF n < 10 THEN <<digit>> ELSE Append(NumberToString(n \div 10), digit)

\* the rows handed to insert into form_response_data, one per answer
responseDataEntries(responseData, responseId) ==
  [i \in 1..Len(responseData) |->
     [response_id |-> responseId,
      field_id |-> i,
      field_value |-> IF responseData[i].type = "string"
                      THEN responseData[i].value
                      ELSE NumberToString(responseData[i].number),
      raw_value |-> responseData[i]]]

(***************************************************************************)
(* FormService.getFormResponses and getFormAnalytics.  A stored row has    *)
(* the fields id, form_id, submitted_at, sentiment and metadata; times are *)
(* counted in ticks of the database clock.                                 *)
(***************************************************************************)
\* rows without the one at position i
removeAt(rows, i) == SubSeq(rows, 1, i - 1) \o SubSeq(rows, i + 1, Len(rows))

\* .order('submitted_at', { ascending: false }): latest first (rows of equal
\* time keep the order of the table)
RECURSIVE orderBySubmittedAtDescending(_)
orderBySubmittedAtDescending(rows) ==
  IF Len(rows) = 0 THEN <<>>
  ELSE LET latest == CHOOSE i \in 1..Len(rows) :
                       \A j \in 1..Len(rows) :
                         \/ rows[j].submitted_at < rows[i].submitted_at
                         \/ rows[j].submitted_at = rows[i].submitted_at /\ i <= j
       IN  <<rows[latest]>> \o orderBySubmittedAtDescending(removeAt(rows, latest))

\* !(r.metadata?.deleted === true) && (r.metadata?.isVisible !== false)
isActive(r) ==
  /\ ~("deleted" \in DOMAIN r.metadata /\ r.metadata.deleted = TRUE)
  /\ ~("isVisible" \in DOMAIN r.metadata /\ r.metadata.isVisible = FALSE)

\* what getFormResponses returns when no request fails: the rows of the
\* form, latest first, without the deleted and the hidden ones
getFormResponses(table, formId) ==
  SelectSeq(orderBySubmittedAtDescending(
              SelectSeq(table, LAMBDA r : r.form_id = formId)),
            isActive)

\* the requests of getFormResponses, any of which may fail: the user, the
\* form of that user, the fields of the form, the responses
FetchOutcomes ==
  {"fetched", "userError", "noUser", "formError", "fieldsError", "responsesError"}

fetchErrorMessage(outcome) ==
  CASE outcome = "userError" -> "Authentication error"
    [] outcome = "noUser" -> "User not authenticated."
    [] outcome = "formError" -> "Form not found or access denied"
    [] outcome = "fieldsError" -> "Failed to fetch form fields"
    [] outcome = "responsesError" -> "Failed to fetch responses"

(***************************************************************************)
(* Table forms and the trigger that counts the responses of a form.        *)
(***************************************************************************)
\* trigger increment_response_count_trigger, AFTER INSERT ON form_responses
increment_form_response_count(formRows, new) ==
  [f \in DOMAIN formRows |->
     IF f = new.form_id
     THEN [formRows[f] EXCEPT !.response_count = @ + 1]
     ELSE formRows[f]]

\* the two forms, of two users, after the rows of a table were inserted
FormsWith(table) ==
  [f \in {"form-1", "form-2"} |->
     [user_id |-> IF f = "form-1" THEN "user-1" ELSE "user-2",
      response_count |-> Cardinality({i \in 1..Len(table) : table[i].form_id = f})]]

(***************************************************************************)
(* FeedbackUpdateService.  A feedback is a row of form_responses.  An id   *)
(* is a number: 0 is a string that is no UUID, n >= 1 the UUID the         *)
(* database generated for the n-th row.  updateData is a record that has   *)
(* exactly the fields the caller set.                                      *)
(***************************************************************************)
DEFAULT_VALIDATION_RULES ==
  [comment |-> [minLength |-> 1, maxLength |-> 5000, required |-> FALSE],
   rating |-> [min |-> 1, max |-> 10, required |-> FALSE],
   categories |->
     [maxCount |-> 10,
      allowedCategories |->
        <<"User Experience", "Performance", "Customer Service", "Product Quality",
          "Pricing", "Technical Issues", "Delivery/Shipping", "Communication",
          "Accessibility", "Security", "Feature Request", "Bug Report">>],
   notes |-> [maxLength |-> 2000]]

RETRY_ATTEMPTS == 3

\* the entries .slice(-10) keeps of modificationHistory
HistoryLimit == 10

isValidUUID(id) == id >= 1

\* the errors validateFeedbackData collects, in its order
validateFeedbackData(data, rules) ==
  LET has(f) == f \in DOMAIN data
      when(cond, error) == IF cond THEN <<error>> ELSE <<>>
  IN  when(~isValidUUID(data.id), "Invalid feedback ID format")
      \o when(has("comment") /\ Len(data.comment) > 0
                /\ Len(data.comment) < rules.comment.minLength,
              "Comment must be at least 1 characters long")
      \o when(has("comment") /\ Len(data.comment) > rules.comment.maxLength,
              "Comment must not exceed 5000 characters")
      \o when(has("rating") /\ data.rating < rules.rating.min,
              "Rating must be at least 1")
      \o when(has("rating") /\ data.rating > rules.rating.max,
              "Rating must not exceed 10")
      \o when(has("sentiment") /\ data.sentiment \notin Sentiments,
              "Invalid sentiment value")
      \o when(has("urgency")
                /\ data.urgency \notin {"low", "medium", "high", "critical"},
              "Invalid urgency value")
      \o when(has("categories")
                /\ Len(data.categories) > rules.categories.maxCount,
              "Cannot have more than 10 categories")
      \o when(has("categories")
                /\ \E i \in 1..Len(data.categories) :
                     ~ArrIncludes(rules.categories.allowedCategories,
                                  data.categories[i]),
              "Invalid categories")
      \o when(has("categories")
                /\ \E i, j \in 1..Len(data.categories) :
                     i # j /\ data.categories[i] = data.categories[j],
              "Duplicate categories are not allowed")
      \o when(has("notes") /\ Len(data.notes) > rules.notes.maxLength,
              "Notes must not exceed 2000 characters")

\* the position in the table of the row with that id, 0 when there is none
findRow(table, id) ==
  IF \E i \in 1..Len(table) : table[i].id = id
  THEN CHOOSE i \in 1..Len(table) : table[i].id = id
  ELSE 0

\* the caller without a session
NoUser == ""

\* validateUserPermissions without the comparison of the owner of the form
validateUserPermissionsAnyOwner(user, feedbackId, table, formRows, outcome) ==
  LET i == findRow(table, feedbackId)
  IN  IF outcome = "throws"
      THEN [success |-> FALSE, error |-> "Permission validation failed"]
      ELSE IF outcome = "userError" \/ user = NoUser
      THEN [success |-> FALSE, error |-> "User not authenticated"]
      ELSE IF outcome = "feedbackError" \/ i = 0
      THEN [success |-> FALSE, error |-> "Feedback not found"]
      ELSE [success |-> TRUE, userId |-> user]

\* what validateUserPermissions returns: the session is asked for the user,
\* then the feedback is read together with the owner of its form
validateUserPermissions(user, feedbackId, table, formRows, outcome) ==
  LET i == findRow(table, feedbackId)
  IN  IF outcome = "throws"
      THEN [success |-> FALSE, error |-> "Permission validation failed"]
      ELSE IF outcome = "userError" \/ user = NoUser
      THEN [success |-> FALSE, error |-> "User not authenticated"]
      ELSE IF outcome = "feedbackError" \/ i = 0
      THEN [success |-> FALSE, error |-> "Feedback not found"]
      ELSE IF formRows[table[i].form_id].user_id # user
      THEN [success |-> FALSE,
            error |-> "Insufficient permissions to update this feedback"]
      ELSE [success |-> TRUE, userId |-> user]

\* what getCurrentFeedbackData returns: the row with its version
getCurrentFeedbackData(feedbackId, table, outcome) ==
  LET i == findRow(table, feedbackId)
  IN  IF outcome = "throws"
      THEN [success |-> FALSE, error |-> "Database query failed"]
      ELSE IF outcome = "error" \/ i = 0
      THEN [success |-> FALSE, error |-> "Failed to retrieve current feedback data"]
      ELSE [success |-> TRUE,
            data |-> [version |-> table[i].submitted_at] @@ table[i]]

\* new Date(feedback.submitted_at).getTime()
versionOf(feedback) == feedback.submitted_at

\* the names of the fields getChangedFields reports (a row has no comment
\* column, so a comment that is given always differs)
getChangedFields(updateData, currentData) ==
  LET has(f) == f \in DOMAIN updateData
      stored(f) == IF f \in DOMAIN currentData.metadata
                   THEN <<currentData.metadata[f]>> ELSE <<>>
  IN  {f \in {"comment"} : has(f)}
      \cup {f \in {"sentiment"} : has(f) /\ updateData.sentiment # currentData.sentiment}
      \cup {f \in {"rating"} :
              has(f) /\ currentData.overall_rating # [rating |-> Rat(updateData.rating, 1)]}
      \cup {f \in {"urgency", "notes", "isVisible"} :
              has(f) /\ stored(f) # <<updateData[f]>>}
      \cup {f \in {"categories"} :
              has(f) /\ updateData.categories
                          # (IF f \in DOMAIN currentData.metadata
                             THEN currentData.metadata.categories ELSE <<>>)}

\* array.slice(-n)
lastOf(arr, n) == IF Len(arr) <= n THEN arr ELSE SubSeq(arr, Len(arr) - n + 1, Len(arr))

\* the payload prepareUpdatePayload returns for a call made at time timestamp
prepareUpdatePayload(updateData, currentData, userId, timestamp) ==
  LET has(f) == f \in DOMAIN updateData
      existingMetadata == currentData.metadata
      history == IF "modificationHistory" \in DOMAIN existingMetadata
                 THEN existingMetadata.modificationHistory ELSE <<>>
      entry == [timestamp |-> timestamp, userId |-> userId,
                changes |-> getChangedFields(updateData, currentData)]
      merged == [lastModified |-> timestamp, modifiedBy |-> userId,
                 modificationHistory |-> lastOf(Append(history, entry), HistoryLimit)]
                  @@ (IF has("metadata") THEN updateData.metadata ELSE EmptyObject)
                  @@ existingMetadata
      reanalyzed == has("comment") /\ Len(updateData.comment) > 0
      sentimentAnalysis == analyzeSentiment(updateData.comment)
      sentiment == IF has("sentiment") THEN <<updateData.sentiment>>
                   ELSE IF reanalyzed THEN <<sentimentAnalysis.sentiment>>
                   ELSE <<>>
      newMetadata ==
        [f \in {g \in {"categories", "urgency", "notes", "isVisible"} : has(g)}
           |-> updateData[f]]
          @@ (IF reanalyzed THEN [sentimentAnalysis |-> sentimentAnalysis]
              ELSE EmptyObject)
          @@ merged
  IN  (IF Len(sentiment) > 0 THEN [sentiment |-> sentiment[1]] ELSE EmptyObject)
        @@ (IF has("rating") /\ updateData.rating # 0
            THEN [overall_rating |-> [rating |-> Rat(updateData.rating, 1)]]
            ELSE EmptyObject)
        @@ [metadata |-> newMetadata]

(***************************************************************************)
(* Inputs                                                                  *)
(***************************************************************************)
\* all concatenations of at most n fragments
RECURSIVE TextsOf(_, _)
TextsOf(fragments, n) ==
  IF n = 0 THEN {<<>>}
  ELSE LET shorter == TextsOf(fragments, n - 1)
       IN  shorter \cup {t \o f : t \in shorter, f \in fragments}

TextFragments ==
  { <<" ">>,
    <<"!">>,
    <<"G","o","o","d">>,                  \* positive word, also a stop word
    <<"b","a","d">>,                      \* negative word of 3 letters
    <<"o","k","a","y">>,                  \* neutral word
    <<"u","n">>,                          \* a token of 2 letters, a prefix
    <<"U","R","G","E","N","T">>,          \* urgent vocabulary, upper case
    <<"p","r","o","b","l","e","m">>,      \* negative word, high-priority vocabulary
    <<"2","0","2","4">> }                 \* a token made of digits

Texts == TextsOf(TextFragments, MaxPieces)

\* texts naming categories: words that end with a blank and a prefix that
\* joins the word after it
CategoryFragments ==
  { <<"s","l","o","w"," ">>,              \* Performance, declared second
    <<"B","U","G"," ">>,                  \* Technical Issues, declared sixth
    <<"d","a","t","a"," ","P","r","i","c","e"," ">>,   \* Security, declared last,
                                                       \* then Pricing, declared fifth
    <<"d","a","t","a"," ">>,              \* Security
    <<"u","n">> }

CategoryTexts == TextsOf(CategoryFragments, MaxCategoryPieces)

\* texts naming emotions
EmotionFragments ==
  { <<"H","a","p","p","y"," ","p","l","e","a","s","e","d"," ">>,  \* joy, twice;
                                          \* after "un", sadness as well
    <<"j","o","y">>,                      \* joy
    <<"e","l","a","t","e","d"," ","j","o","y">>,   \* joy, twice
    <<"t","h","r","i","l","l","e","d">>,  \* joy
    <<"u","n">> }

EmotionTexts == TextsOf(EmotionFragments, MaxEmotionPieces)

CatFragments ==
  { <<" ">>,
    <<"u","n">>,
    <<"U","r","g","e","n","t">>,
    <<"N","o","t"," ","W","o","r","k","i","n","g">>,
    <<"M","a","j","o","r">>,
    <<"i","s","s","u","e">>,
    <<"f","i","n","e">> }

CatTexts == TextsOf(CatFragments, MaxCatPieces)

CategoryNames == [k \in 1..Len(CATEGORY_KEYWORDS) |-> CATEGORY_KEYWORDS[k].category]

\* category lists: none, each declared category alone, and the declared
\* categories read cyclically from three starts
CategoryLists ==
  { [i \in 1..n |-> CategoryNames[((start + i - 2) % Len(CategoryNames)) + 1]] :
      start \in 1..Len(CategoryNames), n \in 0..1 }
  \cup
  { [i \in 1..n |-> CategoryNames[((start + i - 2) % Len(CategoryNames)) + 1]] :
      start \in {1, 6, 9}, n \in 2..MaxCats }

Confidences == {Rat(5, 10), Rat(7, 10), Rat(75, 100), Rat(8, 10), Rat(95, 100)}

NoEmotions == [e \in EmotionNames |-> Rat(0, 1)]

Analyses ==
  { [sentiment |-> s, confidence |-> c, categories |-> cats,
     keywords |-> <<>>, emotions |-> NoEmotions] :
      s \in Sentiments, c \in Confidences, cats \in CategoryLists }

Metadatas ==
  { EmptyMetadata,
    [urgency |-> "critical", actionRequired |-> TRUE, categories |-> <<"Pricing">>],
    [urgency |-> "low", actionRequired |-> FALSE, categories |-> <<>>],
    [urgency |-> "high", actionRequired |-> FALSE, categories |-> <<>>],
    [urgency |-> "medium", actionRequired |-> TRUE],
    [categories |-> <<"Security", "Pricing">>] }

Responses == [sentiment : Sentiments \cup {"null"}, metadata : Metadatas]

RECURSIVE ListsOf(_, _)
ListsOf(items, n) ==
  IF n = 0 THEN {<<>>}
  ELSE LET shorter == ListsOf(items, n - 1)
       IN  shorter \cup {Append(l, r) : l \in shorter, r \in items}

ResponseLists == ListsOf(Responses, MaxResponses)

\* n responses of one sentiment
block(s, n) == [i \in 1..n |-> [sentiment |-> s, metadata |-> EmptyMetadata]]

\* category lists as responses store them: distinct labels
ItemCategoryLists ==
  { SubSeq(CategoryNames, first, first + n - 1) : first \in {1, 3}, n \in {2, 4} }

CategorizedResponses ==
  { [sentiment |-> s, metadata |-> [categories |-> l]] :
      s \in Sentiments, l \in ItemCategoryLists }

\* collections for the top categories
CategorizedLists == ListsOf(CategorizedResponses, MaxCategorized)

\* texts of blanks, punctuation and short tokens
BlankFragments ==
  { <<" ">>, <<"\t">>, <<"\n">>, <<"!">>, <<"_">>, <<"a">>,
    <<"G","o","o","d">>, <<"b","r","o","k","e","n">> }

ArbitraryTexts == TextsOf(BlankFragments, MaxArbitrary)

\* category names that are any strings
ArbitraryNames == {"", "Pricing", "constructor", "other"}

ArbitraryNameLists ==
  {<<>>} \cup {<<a>> : a \in ArbitraryNames}
         \cup {<<a, b>> : a \in ArbitraryNames, b \in ArbitraryNames}

ArbitraryAnalyses ==
  { [sentiment |-> s, confidence |-> c, categories |-> cats,
     keywords |-> <<>>, emotions |-> NoEmotions] :
      s \in Sentiments, c \in {Rat(5, 10), Rat(95, 100)}, cats \in ArbitraryNameLists }

ArbitraryResponses ==
  { [sentiment |-> s, metadata |-> [categories |-> l]] :
      s \in {"positive", "null"}, l \in ArbitraryNameLists }

ArbitraryLists == ListsOf(ArbitraryResponses, MaxArbitrary)

\* answers: strings of 4, 10, 11 and 12 characters and three numbers
FieldValues ==
  { [type |-> "string", value |-> <<"G","o","o","d">>],
    [type |-> "string", value |-> <<"N","o","t"," ","u","r","g","e","n","t">>],
    [type |-> "string", value |-> <<"U","R","G","E","N","T"," ","h","e","l","p">>],
    [type |-> "string", value |-> <<"G","o","o","d"," ","p","r","o","d","u","c","t">>],
    [type |-> "number", number |-> 4],
    [type |-> "number", number |-> 7],
    [type |-> "number", number |-> 11] }

Submissions ==
  [formId : {"form-1"}, responseData : ListsOf(FieldValues, MaxFields),
   source : {"web"}]

\* answers of blanks and of the empty string
ArbitrarySubmissions ==
  [formId : {"form-1"},
   responseData : ListsOf({ [type |-> "string", value |-> <<>>],
                            [type |-> "string", value |-> [i \in 1..11 |-> " "]],
                            [type |-> "number", number |-> 0] }, MaxArbitrary),
   source : {"web"}]

\* what the database answers to the three requests of one submission
DatabaseOutcomes == {"saved", "responseError", "fieldsError", "dataError"}

\* collections for the percentages: a positive, b neutral and c negative items
BucketLists ==
  { block("positive", a) \o block("neutral", b) \o block("negative", c) :
      a \in 0..MaxBucket, b \in 0..MaxBucket, c \in 0..MaxBucket }

\* collections for the trend: m older items of which j are positive, then the
\* last 10 items of which k are positive; m = 0 leaves exactly 10 items
TrendLists ==
  { block("positive", c[2]) \o block("negative", c[1] - c[2])
      \o block("positive", c[3]) \o block("negative", TrendWindow - c[3]) :
      c \in {mjk \in (0..MaxOlder) \X (0..MaxOlder) \X (0..TrendWindow) :
               mjk[2] <= mjk[1]} }

\* tables for the analytics: n rows of form-1 submitted at ticks 1..n in that
\* order, the first k negative and the later ones positive; the row of tick
\* `deleted` is soft-deleted, the row of tick `hidden` is hidden (0: none);
\* then possibly one row of another form
StoredRows(n, k, deleted, hidden) ==
  [i \in 1..n |->
     [id |-> i, form_id |-> "form-1", submitted_at |-> i,
      sentiment |-> IF i <= k THEN "negative" ELSE "positive",
      metadata |-> IF i = deleted THEN [deleted |-> TRUE]
                   ELSE IF i = hidden THEN [isVisible |-> FALSE]
                   ELSE EmptyMetadata]]

OtherFormRow(n) ==
  [id |-> n + 1, form_id |-> "form-2", submitted_at |-> n + 1,
   sentiment |-> "neutral", metadata |-> EmptyMetadata]

StoredTables ==
  { <<>> \o StoredRows(n, k, dh[1], dh[2])
         \o (IF other THEN <<OtherFormRow(n)>> ELSE <<>>) :
      n \in 0..MaxStored, k \in 0..MaxStored, dh \in {<<0, 0>>, <<1, 0>>, <<0, 2>>},
      other \in BOOLEAN }

\* the modification history a feedback has after h updates by its owner
StoredHistory(h) ==
  [i \in 1..h |-> [timestamp |-> i + 1, userId |-> "user-1", changes |-> {"notes"}]]

\* a feedback inserted at a tick and updated h times since
FeedbackRow(id, formId, tick, h) ==
  [id |-> id, form_id |-> formId, submitted_at |-> tick,
   sentiment |-> "neutral", overall_rating |-> Null,
   metadata |-> IF h = 0 THEN EmptyMetadata
                ELSE [lastModified |-> h + 1, modifiedBy |-> "user-1",
                      modificationHistory |-> <<>> \o StoredHistory(h)]]

\* a feedback never updated, updated 9 times and updated 10 times or more
HistoryLengths == {0, HistoryLimit - 1, HistoryLimit}

\* the tick after which the calls of the service are made
FirstTick == HistoryLimit + 3

ValidUpdates ==
  { [id |-> 1, urgency |-> "high"],
    [id |-> 1, rating |-> 5, notes |-> <<"o","k">>],
    [id |-> 1, categories |-> <<"Pricing", "Security">>, isVisible |-> FALSE],
    [id |-> 1, comment |-> <<"b","a","d">>],
    [id |-> 1, comment |-> <<>>],
    [id |-> 1, metadata |-> [modificationHistory |-> <<>>, flagged |-> TRUE]],
    [id |-> 2, sentiment |-> "positive"] }

InvalidUpdates ==
  { [id |-> 0, urgency |-> "high"],
    [id |-> 1, rating |-> 0],
    [id |-> 1, rating |-> 11],
    [id |-> 1, sentiment |-> "mixed"],
    [id |-> 1, urgency |-> "urgent"],
    [id |-> 1, categories |-> <<"Pricing", "Pricing">>],
    [id |-> 1, categories |-> <<"Other">>],
    [id |-> 1, categories |->
       SubSeq(DEFAULT_VALIDATION_RULES.categories.allowedCategories, 1, 11)] }

\* a call that has just been made
Call(o, user, updateData) ==
  [op |-> o, user |-> user, updateData |-> updateData, pc |-> "called",
   currentData |-> Unset, payload |-> Unset, attempt |-> 0, written |-> 0,
   result |-> Unset]

\* a caller that makes no call
Idle == [Call("none", NoUser, [id |-> 0]) EXCEPT !.pc = "returned"]

Callers == 1..MaxCallers

\* the calls of the owner of form-1 on its feedback 1
OwnerCalls ==
  << Call("updateFeedback", "user-1", [id |-> 1, urgency |-> "high"]),
     Call("updateFeedback", "user-1", [id |-> 1, notes |-> <<"o","k">>]),
     Call("deleteFeedback", "user-1", [id |-> 1]),
     Call("deleteFeedbackResponse", "user-1", [id |-> 1]),
     Idle >>

\* the calls of the sessions of the owner, one session each, taken from
\* positions from..to of OwnerCalls; the sessions differ in their calls only,
\* so that they are numbered in the order of their calls in OwnerCalls
OwnerSessions(from, to) ==
  { [c \in Callers |-> OwnerCalls[choice[c]]] :
      choice \in { ch \in [Callers -> from..to] :
                     \A c \in Callers \ {1} : ch[c - 1] <= ch[c] } }

\* the calls of any user with any argument
AnyCalls ==
  { Call("updateFeedback", u, d) :
      u \in {NoUser, "user-1", "user-2"}, d \in ValidUpdates \cup InvalidUpdates }
  \cup { Call(o, u, [id |-> i]) :
           o \in {"deleteFeedback", "deleteFeedbackResponse"},
           u \in {NoUser, "user-1", "user-2"}, i \in 0..3 }

\* tables of the service: feedback 1 of form-1 with a history, then possibly
\* feedback 2 of form-2
FeedbackTables ==
  { <<FeedbackRow(1, "form-1", 1, h)>>
      \o (IF other THEN <<FeedbackRow(2, "form-2", HistoryLimit + 2, 0)>> ELSE <<>>) :
      h \in HistoryLengths, other \in BOOLEAN }

\* the tables that hold the feedback of form-1 only
OwnerTables == { table \in FeedbackTables : Len(table) = 1 }

\* what a visitor submits while the owners work
FeedbackSubmissions ==
  [formId : {"form-1"},
   responseData : { <<>>, <<[type |-> "string", value |-> <<"G","o","o","d">>]>> },
   source : {"web"}]

(***************************************************************************)
(* The state machine: one run makes the calls of one caller.               *)
(*   op = "analyze":    analyzeSentiment(text), then categorizeFeedback    *)
(*                      with the same text and the analysis returned       *)
(*   op = "categorize": categorizeFeedback(text, sentiment)                *)
(*   op = "insights":   generateInsights(responses)                        *)
(*   op = "submit":     submitResponse(formId, responseData, source)       *)
(***************************************************************************)
VARIABLES
  op,              \* the caller
  pc,              \* "start", "analyzed", "categorized", "aggregated",
                   \* "submitted", "failed"
  text,            \* the text argument
  sentiment,       \* the analysis argument of categorizeFeedback
  responses,       \* the collection argument of generateInsights
  analysis,        \* what analyzeSentiment returned
  categorization,  \* what categorizeFeedback returned
  insights,        \* what generateInsights returned
  submission,      \* the arguments of submitResponse
  textResponses,   \* the text submitResponse put together
  form_responses,      \* the rows of table form_responses
  form_response_data,  \* the rows of table form_response_data
  returned,        \* what submitResponse or getFormAnalytics returned or threw
  fetched,         \* what getFormResponses returned to getFormAnalytics
  forms,           \* the rows of table forms, by id: user_id and response_count
  calls,           \* the calls of the signed-in callers: arguments, position,
                   \* what the call has read so far, result
  clock,           \* the ticks of the database clock so far, one per generated row
  faults           \* the requests of the feedback service that failed so far
                   \* and per prepared update

submitVars == <<submission, textResponses, form_responses, form_response_data, returned>>

feedbackVars == <<forms, calls, clock, faults>>

vars == <<op, pc, text, sentiment, responses, analysis, categorization, insights,
          submitVars, fetched, feedbackVars>>

Init ==
  /\ pc = "start"
  /\ analysis = Unset
  /\ categorization = Unset
  /\ insights = Unset
  /\ textResponses = <<>>
  /\ form_response_data = <<>>
  /\ returned = Unset
  /\ fetched = <<>>
  /\ calls = <<>>
  /\ \/ op = "analyze" /\ text \in Texts \cup CategoryTexts \cup EmotionTexts
        /\ sentiment = Unset /\ responses = <<>> /\ submission = Unset
        /\ form_responses = <<>>
     \/ op = "categorize" /\ text \in CatTexts
        /\ sentiment \in Analyses /\ responses = <<>> /\ submission = Unset
        /\ form_responses = <<>>
     \/ op = "insights" /\ text = <<>>
        /\ sentiment = Unset /\ responses \in ResponseLists \cup CategorizedLists
                                         \cup BucketLists \cup TrendLists
        /\ submission = Unset /\ form_responses = <<>>
     \/ op = "submit" /\ text = <<>>
        /\ sentiment = Unset /\ responses = <<>> /\ submission \in Submissions
        /\ form_responses = <<>>
     \/ op = "analytics" /\ text = <<>>
        /\ sentiment = Unset /\ responses = <<>>
        /\ submission \in [formId : {"form-1"}]
        /\ form_responses \in StoredTables
  /\ forms = FormsWith(form_responses)
  /\ clock = Len(form_responses)
  /\ faults = 0

AnalyzeSentiment ==
  /\ op = "analyze" /\ pc = "start"
  /\ analysis' = analyzeSentiment(text)
  /\ sentiment' = analysis'
  /\ pc' = "analyzed"
  /\ UNCHANGED <<op, text, responses, categorization, insights, submitVars, fetched, feedbackVars>>

CategorizeFeedback ==
  /\ \/ op = "analyze" /\ pc = "analyzed"
     \/ op = "categorize" /\ pc = "start"
  /\ categorization' = categorizeFeedback(text, sentiment)
  /\ pc' = "categorized"
  /\ UNCHANGED <<op, text, sentiment, responses, analysis, insights, submitVars, fetched, feedbackVars>>

\* GenerateInsights taking the recent window with splice(-10), which removes
\* the window from the caller's array
GenerateInsightsInPlace ==
  /\ op = "insights" /\ pc = "start"
  /\ insights' = generateInsights(responses)
  /\ pc' = "aggregated"
  /\ responses' = IF Len(responses) > TrendWindow
                  THEN SubSeq(responses, 1, Len(responses) - TrendWindow)
                  ELSE <<>>
  /\ UNCHANGED <<op, text, sentiment, analysis, categorization, submitVars, fetched, feedbackVars>>

GenerateInsights ==
  /\ op = "insights" /\ pc = "start"
  /\ insights' = generateInsights(responses)
  /\ pc' = "aggregated"
  /\ UNCHANGED <<op, text, sentiment, responses, analysis, categorization, submitVars, fetched, feedbackVars>>

\* one call of submitResponse: the row of the response is inserted, the form
\* fields are fetched, the rows of the answers are inserted; a request the
\* database refuses ends the call with an error and leaves what was inserted
SubmitResponse ==
  /\ op = "submit" /\ pc = "start"
  /\ textResponses' = textResponsesOf(submission.responseData)
  /\ \E inserted \in {responseRow(submission.formId, submission.responseData,
                                  submission.source)},
        outcome \in DatabaseOutcomes :
       LET responseData == submission.responseData
           id == clock + 1
           row == [id |-> id, submitted_at |-> id] @@ inserted
           message == CASE outcome = "responseError" -> "Failed to save response"
                        [] outcome = "fieldsError" -> "Failed to fetch form fields"
                        [] outcome = "dataError" /\ Len(responseData) > 0
                             -> "Failed to save response data"
                        [] OTHER -> ""
       IN  /\ form_responses' = IF outcome = "responseError"
                                THEN form_responses
                                ELSE Append(form_responses, row)
           /\ form_response_data' = IF outcome = "saved"
                                    THEN form_response_data
                                           \o responseDataEntries(responseData, id)
                                    ELSE form_response_data
           /\ forms' = IF outcome = "responseError"
                       THEN forms
                       ELSE increment_form_response_count(forms, row)
           /\ clock' = IF outcome = "responseError" THEN clock ELSE id
           /\ returned' = IF message = "" THEN [id |-> id] ELSE [error |-> message]
           /\ pc' = IF message = "" THEN "submitted" ELSE "failed"
  /\ UNCHANGED <<op, text, sentiment, responses, analysis, categorization, insights,
                 submission, fetched, calls, faults>>

\* one call of getFormAnalytics(formId): getFormResponses, whose error is
\* thrown on, then generateInsights on what it returned
GetFormAnalytics ==
  /\ op = "analytics" /\ pc = "start"
  /\ \E outcome \in FetchOutcomes :
       IF outcome = "fetched"
       THEN /\ fetched' = getFormResponses(form_responses, submission.formId)
            /\ insights' = generateInsights(fetched')
            /\ returned' = insights'
            /\ pc' = "reported"
       ELSE /\ returned' = [error |-> fetchErrorMessage(outcome)]
            /\ pc' = "failed"
            /\ UNCHANGED <<fetched, insights>>
  /\ UNCHANGED <<op, text, sentiment, responses, analysis, categorization,
                 submission, textResponses, form_responses, form_response_data,
                 feedbackVars>>

Next ==
  \/ AnalyzeSentiment \/ CategorizeFeedback \/ GenerateInsights \/ SubmitResponse
  \/ GetFormAnalytics

Spec == Init /\ [][Next]_vars

\* the same calls on texts, analyses and collections made of any strings
InitArbitrary ==
  /\ pc = "start"
  /\ analysis = Unset
  /\ categorization = Unset
  /\ insights = Unset
  /\ textResponses = <<>>
  /\ form_response_data = <<>>
  /\ returned = Unset
  /\ fetched = <<>>
  /\ calls = <<>>
  /\ \/ op = "analyze" /\ text \in ArbitraryTexts
        /\ sentiment = Unset /\ responses = <<>> /\ submission = Unset
        /\ form_responses = <<>>
     \/ op = "categorize" /\ text \in ArbitraryTexts
        /\ sentiment \in ArbitraryAnalyses /\ responses = <<>> /\ submission = Unset
        /\ form_responses = <<>>
     \/ op = "insights" /\ text = <<>>
        /\ sentiment = Unset /\ responses \in ArbitraryLists /\ submission = Unset
        /\ form_responses = <<>>
     \/ op = "submit" /\ text = <<>>
        /\ sentiment = Unset /\ responses = <<>> /\ submission \in ArbitrarySubmissions
        /\ form_responses = <<>>
     \/ op = "analytics" /\ text = <<>>
        /\ sentiment = Unset /\ responses = <<>>
        /\ submission \in [formId : {"form-1", "form-2"}]
        /\ form_responses \in StoredTables
  /\ forms = FormsWith(form_responses)
  /\ clock = Len(form_responses)
  /\ faults = 0

SpecArbitrary == InitArbitrary /\ [][Next]_vars

(***************************************************************************)
(* The feedback service: the calls of the signed-in callers on the tables, *)
(* one step per request to the database, while a visitor may submit a      *)
(* response.                                                               *)
(*   updateFeedback:  "called" -> "permitted" -> "current" -> "checked"    *)
(*                    -> "returned", back to "current" to try again        *)
(*   deleteFeedback:  "called" -> "permitted" -> "current" -> "returned"   *)
(*   deleteFeedbackResponse:  "called" -> "owned" -> "deleted"             *)
(*                    -> "returned"                                        *)
(***************************************************************************)
coreVars == <<op, pc, text, sentiment, responses, analysis, categorization, insights,
              submission, textResponses, returned, fetched>>

\* the calls after call c returned result
Return(c, result) == [calls EXCEPT ![c].pc = "returned", ![c].result = result]

Failure(error) == [success |-> FALSE, error |-> error]

\* what the session and the database answer to a request
PermissionOutcomes == {"ok", "userError", "feedbackError", "throws"}
ReadOutcomes == {"ok", "error", "throws"}
\* "denied": row level security is enabled on form_responses and the
\* migrations give it no policy for UPDATE or DELETE, so that the statement
\* finds no row it may touch and is answered without an error
WriteOutcomes == {"ok", "error", "denied"}

\* the answers a request can get: any of its outcomes while requests may
\* still fail, the good one after that
Answers(outcomes) == IF faults < MaxFaults THEN outcomes ELSE {"ok"}

\* the failed requests with a request answered by outcome
failedWith(outcome) == IF outcome = "ok" THEN faults ELSE faults + 1

\* the rows of a table without those of a response
withoutResponse(table, field, id) == SelectSeq(table, LAMBDA r : r[field] # id)

\* updateFeedback up to the answer of validateUserPermissions
UpdateFeedback(c) ==
  /\ calls[c].op = "updateFeedback" /\ calls[c].pc = "called"
  /\ LET updateData == calls[c].updateData
         errors == validateFeedbackData(updateData, DEFAULT_VALIDATION_RULES)
     IN  IF Len(errors) > 0
         THEN /\ calls' = Return(c, [success |-> FALSE, error |-> "Validation failed",
                                     validationErrors |-> errors])
              /\ faults' = faults
         ELSE \E outcome \in Answers(PermissionOutcomes) :
                LET authResult == validateUserPermissions(calls[c].user, updateData.id,
                                                          form_responses, forms, outcome)
                IN  /\ calls' = IF authResult.success
                                THEN [calls EXCEPT ![c].pc = "permitted"]
                                ELSE Return(c, Failure(authResult.error))
                    /\ faults' = failedWith(outcome)
  /\ UNCHANGED <<coreVars, form_responses, form_response_data, forms, clock>>

\* deleteFeedback up to the answer of validateUserPermissions
DeleteFeedback(c) ==
  /\ calls[c].op = "deleteFeedback" /\ calls[c].pc = "called"
  /\ LET feedbackId == calls[c].updateData.id
     IN  IF ~isValidUUID(feedbackId)
         THEN /\ calls' = Return(c, Failure("Invalid feedback ID format"))
              /\ faults' = faults
         ELSE \E outcome \in Answers(PermissionOutcomes) :
                LET authResult == validateUserPermissions(calls[c].user, feedbackId,
                                                          form_responses, forms, outcome)
                IN  /\ calls' = IF authResult.success
                                THEN [calls EXCEPT ![c].pc = "permitted"]
                                ELSE Return(c, Failure(authResult.error))
                    /\ faults' = failedWith(outcome)
  /\ UNCHANGED <<coreVars, form_responses, form_response_data, forms, clock>>

\* the answer of getCurrentFeedbackData in updateFeedback and deleteFeedback;
\* updateFeedback goes on to prepare its payload
GetCurrentFeedbackData(c) ==
  /\ calls[c].op \in {"updateFeedback", "deleteFeedback"} /\ calls[c].pc = "permitted"
  /\ \E outcome \in Answers(ReadOutcomes) :
       /\ faults' = failedWith(outcome)
       /\ LET call == calls[c]
              updating == call.op = "updateFeedback"
              currentData == getCurrentFeedbackData(call.updateData.id, form_responses,
                                                    outcome)
          IN  IF ~currentData.success
              THEN /\ calls' = Return(c, Failure(IF updating THEN currentData.error
                                                 ELSE "Feedback not found or already deleted"))
                   /\ clock' = clock
              ELSE /\ calls' = [calls EXCEPT
                                  ![c].pc = "current",
                                  ![c].currentData = currentData.data,
                                  ![c].payload =
                                    IF updating
                                    THEN prepareUpdatePayload(call.updateData,
                                           currentData.data, call.user, clock + 1)
                                    ELSE Unset,
                                  ![c].attempt = 1]
                   /\ clock' = IF updating THEN clock + 1 ELSE clock
  /\ UNCHANGED <<coreVars, form_responses, form_response_data, forms>>

\* Retry without the limit of the loop
RetryForever(requests, c, pos) ==
  [requests EXCEPT ![c].pc = pos,
                   ![c].attempt = IF @ < RETRY_ATTEMPTS + 1 THEN @ + 1 ELSE @]

\* what a call does after an attempt failed: the next attempt, from
\* position pos, or the failure after the last one; requests are the calls
\* with the requests of this attempt counted
Retry(requests, c, pos) ==
  IF requests[c].attempt < RETRY_ATTEMPTS
  THEN [requests EXCEPT ![c].pc = pos, ![c].attempt = @ + 1]
  ELSE [requests EXCEPT ![c].pc = "returned",
                        ![c].result = Failure("Failed after 3 attempts")]

\* one attempt of updateFeedbackInDatabase up to the answer to the read of
\* the version
CheckVersion(c) ==
  /\ calls[c].op = "updateFeedback" /\ calls[c].pc = "current"
  /\ \E outcome \in Answers(ReadOutcomes) :
       /\ faults' = failedWith(outcome)
       /\ LET i == findRow(form_responses, calls[c].updateData.id)
              expectedVersion == calls[c].currentData.version
          IN  calls' =
                IF outcome = "throws" THEN Retry(calls, c, "current")
                ELSE IF outcome = "error" \/ i = 0
                THEN Return(c, Failure("Feedback not found or has been deleted"))
                ELSE IF versionOf(form_responses[i]) # expectedVersion
                THEN Return(c, Failure("Feedback has been modified by another user. Please refresh and try again."))
                ELSE [calls EXCEPT ![c].pc = "checked"]
  /\ UNCHANGED <<coreVars, form_responses, form_response_data, forms, clock>>

\* the same attempt from the update of the row on; an update that finds no
\* row is answered with an error
UpdateFeedbackInDatabase(c) ==
  /\ calls[c].op = "updateFeedback" /\ calls[c].pc = "checked"
  /\ \E outcome \in Answers(WriteOutcomes) :
       /\ faults' = failedWith(outcome)
       /\ LET i == findRow(form_responses, calls[c].updateData.id)
              issued == [calls EXCEPT ![c].written = @ + 1]
          IN  IF outcome = "ok" /\ i # 0
              THEN LET updatedFeedback == calls[c].payload @@ form_responses[i]
                   IN  /\ form_responses' = [form_responses EXCEPT ![i] = updatedFeedback]
                       /\ calls' = [issued EXCEPT
                                     ![c].pc = "returned",
                                     ![c].result =
                                       [success |-> TRUE, data |-> updatedFeedback,
                                        version |-> versionOf(updatedFeedback)]]
              ELSE /\ form_responses' = form_responses
                   /\ calls' = Retry(issued, c, "current")
  /\ UNCHANGED <<coreVars, form_response_data, forms, clock>>
(***************************************************************************)
\* one attempt of deleteFeedbackFromDatabase; the rows of the answers go with
\* the row of the response (ON DELETE CASCADE)
DeleteFeedbackFromDatabase(c) ==
  /\ calls[c].op = "deleteFeedback" /\ calls[c].pc = "current"
  /\ \E outcome \in Answers(WriteOutcomes) :
       /\ faults' = failedWith(outcome)
       /\ LET feedbackId == calls[c].updateData.id
              issued == [calls EXCEPT ![c].written = @ + 1]
              gone == IF outcome = "denied" THEN 0 ELSE feedbackId
          IN  IF outcome # "error"
              THEN /\ form_responses' = withoutResponse(form_responses, "id", gone)
                   /\ form_response_data' =
                        withoutResponse(form_response_data, "response_id", gone)
                   /\ calls' = [issued EXCEPT
                                 ![c].pc = "returned",
                                 ![c].result =
                                   [success |-> TRUE,
                                    data |-> [id |-> feedbackId, deleted |-> TRUE]]]
              ELSE /\ UNCHANGED <<form_responses, form_response_data>>
                   /\ calls' = Retry(issued, c, "current")
  /\ UNCHANGED <<coreVars, forms, clock>>

\* FormService.deleteFeedbackResponse up to the answer to the read of the
\* response and of the owner of its form; what it throws is its result
DeleteFeedbackResponse(c) ==
  /\ calls[c].op = "deleteFeedbackResponse" /\ calls[c].pc = "called"
  /\ \E outcome \in Answers({"ok", "userError", "responseCheckError"}) :
       /\ faults' = failedWith(outcome)
       /\ LET responseId == calls[c].updateData.id
              i == findRow(form_responses, responseId)
          IN  calls' =
                IF outcome = "userError" THEN Return(c, [threw |-> "Authentication error"])
                ELSE IF calls[c].user = NoUser
                THEN Return(c, [threw |-> "User not authenticated."])
                ELSE IF ~isValidUUID(responseId)
                THEN Return(c, [threw |-> "Invalid response ID format"])
                ELSE IF \/ outcome = "responseCheckError" \/ i = 0
                        \/ forms[form_responses[i].form_id].user_id # calls[c].user
                THEN Return(c, [threw |-> "Response not found or access denied"])
                ELSE [calls EXCEPT
                        ![c].pc = "owned",
                        ![c].currentData = [id |-> responseId,
                                            form_id |-> form_responses[i].form_id]]
  /\ UNCHANGED <<coreVars, form_responses, form_response_data, forms, clock>>

\* the hard delete of deleteFeedbackResponse
DeleteResponseRow(c) ==
  /\ calls[c].op = "deleteFeedbackResponse" /\ calls[c].pc = "owned"
  /\ \E outcome \in Answers(WriteOutcomes) :
       /\ faults' = failedWith(outcome)
       /\ LET responseId == calls[c].updateData.id
              issued == [calls EXCEPT ![c].written = @ + 1]
              gone == IF outcome = "denied" THEN 0 ELSE responseId
          IN  IF outcome # "error"
              THEN /\ form_responses' = withoutResponse(form_responses, "id", gone)
                   /\ form_response_data' =
                        withoutResponse(form_response_data, "response_id", gone)
                   /\ calls' = [issued EXCEPT ![c].pc = "deleted"]
              ELSE /\ UNCHANGED <<form_responses, form_response_data>>
                   /\ calls' = [issued EXCEPT
                                 ![c].pc = "returned",
                                 ![c].result = [threw |-> "Failed to delete response"]]
  /\ UNCHANGED <<coreVars, forms, clock>>

\* rpc('decrement_form_response_count', { form_id }): no migration defines
\* the function, so the request fails unless the database has one from
\* elsewhere, which takes one off the count; a failure is logged only
DecrementFormResponseCount(c) ==
  /\ calls[c].op = "deleteFeedbackResponse" /\ calls[c].pc = "deleted"
  /\ \E outcome \in {"decremented", "updateCountError"} :
       forms' = IF outcome = "decremented"
                THEN [forms EXCEPT ![calls[c].currentData.form_id].response_count = @ - 1]
                ELSE forms
  /\ calls' = Return(c, [returned |-> TRUE])
  /\ UNCHANGED <<coreVars, form_responses, form_response_data, clock, faults>>

InitFeedback ==
  /\ pc = "start"
  /\ text = <<>>
  /\ sentiment = Unset
  /\ responses = <<>>
  /\ analysis = Unset
  /\ categorization = Unset
  /\ insights = Unset
  /\ textResponses = <<>>
  /\ form_response_data = <<>>
  /\ returned = Unset
  /\ fetched = <<>>
  /\ clock = FirstTick
  /\ \/ /\ op = "idle" /\ submission = Unset
        /\ form_responses \in OwnerTables
        /\ calls \in OwnerSessions(1, Len(OwnerCalls) - 1)
        /\ faults = MaxFaults - 1
     \/ /\ op = "idle" /\ submission = Unset
        /\ form_responses \in FeedbackTables
        /\ calls \in {[c \in Callers |-> IF c = 1 THEN call ELSE Idle] : call \in AnyCalls}
        /\ faults = 0
     \/ /\ op = "submit" /\ submission \in FeedbackSubmissions
        /\ form_responses \in OwnerTables
        /\ calls \in OwnerSessions(3, Len(OwnerCalls))
        /\ faults = MaxFaults - 1
  /\ forms = FormsWith(form_responses)

\* the steps of caller c
CallStep(c) ==
  \/ UpdateFeedback(c) \/ GetCurrentFeedbackData(c) \/ CheckVersion(c)
  \/ UpdateFeedbackInDatabase(c)
  \/ DeleteFeedback(c) \/ DeleteFeedbackFromDatabase(c)
  \/ DeleteFeedbackResponse(c) \/ DeleteResponseRow(c)
  \/ DecrementFormResponseCount(c)

NextFeedback ==
  \/ SubmitResponse
  \/ \E c \in Callers : CallStep(c)

SpecFeedback == InitFeedback /\ [][NextFeedback]_vars

\* every request is answered and the caller goes on, and so does the visitor
FairSpecFeedback ==
  /\ SpecFeedback
  /\ \A c \in Callers : WF_vars(CallStep(c))
  /\ WF_vars(SubmitResponse)

(***************************************************************************)
(* Properties                                                              *)
(***************************************************************************)
\* analyzeSentiment has returned for the text of this run
Analyzed == op = "analyze" /\ pc \in {"analyzed", "categorized"}

\* categorizeFeedback has returned for the text and the analysis of this run
Categorized == pc = "categorized"

\* the number of tokens that are entries of a lexicon
LexiconHits(words, lexicon) ==
  Cardinality({i \in 1..Len(words) : \E k \in 1..Len(lexicon) : lexicon[k] = words[i]})

\* the word occurs in the text, in any letter case
ContainsAnyCase(s, word) ==
  \E i \in 0..(Len(s) - Len(word)) :
    \A j \in 1..Len(word) : ToLowerChar(s[i + j]) = word[j]

ContainsAnyOf(s, vocabulary) ==
  \E k \in 1..Len(vocabulary) : ContainsAnyCase(s, vocabulary[k])

\* C1: for every text, analyzeSentiment returns one of the three sentiments
\* and a confidence between 0.5 and 0.95, both included.
C1_SentimentAndConfidenceRange ==
  Analyzed =>
    /\ analysis.sentiment \in {"positive", "neutral", "negative"}
    /\ RatLeq(<<1, 2>>, analysis.confidence)
    /\ RatLeq(analysis.confidence, <<95, 100>>)

\* C1 witness: a text of negative words only, whose confidence meets the cap
C1_Witness ==
  /\ Analyzed
  /\ analysis.sentiment = "negative"
  /\ analysis.confidence = <<19, 20>>
  /\ LexiconHits(sentimentWords(text), NEGATIVE_KEYWORDS) = 2

\* C2: with p, n, u the tokens matching the positive, negative and neutral
\* lexicon and total = p + n + u: total = 0 gives neutral 0.5; else p > n
\* gives positive min(0.95, 0.5 + p/total * 0.5); else n > p gives negative
\* min(0.95, 0.5 + n/total * 0.5); else neutral 0.6.
C2_SentimentDecision ==
  Analyzed =>
    LET words == sentimentWords(text)
        p == LexiconHits(words, POSITIVE_KEYWORDS)
        n == LexiconHits(words, NEGATIVE_KEYWORDS)
        u == LexiconHits(words, NEUTRAL_KEYWORDS)
        total == p + n + u
        capped(k) == IF 2 * total * 95 < 100 * (total + k)
                     THEN Rat(95, 100) ELSE Rat(total + k, 2 * total)
    IN  IF total = 0
        THEN analysis.sentiment = "neutral" /\ analysis.confidence = Rat(1, 2)
        ELSE IF p > n
        THEN analysis.sentiment = "positive" /\ analysis.confidence = capped(p)
        ELSE IF n > p
        THEN analysis.sentiment = "negative" /\ analysis.confidence = capped(n)
        ELSE analysis.sentiment = "neutral" /\ analysis.confidence = Rat(6, 10)

\* C2 witness: one positive and one neutral token give positive at 0.75
C2_Witness ==
  /\ Analyzed
  /\ LexiconHits(sentimentWords(text), POSITIVE_KEYWORDS) = 1
  /\ LexiconHits(sentimentWords(text), NEUTRAL_KEYWORDS) = 1
  /\ analysis.sentiment = "positive"
  /\ analysis.confidence = <<3, 4>>

\* C3: analyzeSentiment("") returns neutral, 0.5, no categories, no keywords
\* and the six emotion scores 0.
C3_EmptyText ==
  (Analyzed /\ text = <<>>) =>
    /\ analysis.sentiment = "neutral"
    /\ analysis.confidence = <<1, 2>>
    /\ analysis.categories = <<>>
    /\ analysis.keywords = <<>>
    /\ DOMAIN analysis.emotions = {"joy", "anger", "fear", "sadness", "surprise", "disgust"}
    /\ \A e \in DOMAIN analysis.emotions : analysis.emotions[e][1] = 0

\* C3 witness: the empty text has been analyzed
C3_Witness == Analyzed /\ Len(text) = 0 /\ analysis.sentiment = "neutral"

\* C4: a text with at least one positive token and no negative or neutral
\* token is positive with a confidence above 0.5.
C4_OnlyPositiveWords ==
  LET words == sentimentWords(text)
  IN  (/\ Analyzed
       /\ LexiconHits(words, POSITIVE_KEYWORDS) >= 1
       /\ LexiconHits(words, NEGATIVE_KEYWORDS) = 0
       /\ LexiconHits(words, NEUTRAL_KEYWORDS) = 0)
      => (analysis.sentiment = "positive" /\ RatLess(<<1, 2>>, analysis.confidence))

\* C4 witness: one positive token beside a token of no lexicon
C4_Witness ==
  /\ Analyzed
  /\ Len(sentimentWords(text)) = 2
  /\ LexiconHits(sentimentWords(text), POSITIVE_KEYWORDS) = 1
  /\ LexiconHits(sentimentWords(text), NEGATIVE_KEYWORDS) = 0
  /\ LexiconHits(sentimentWords(text), NEUTRAL_KEYWORDS) = 0
  /\ analysis.sentiment = "positive"

\* C5: the urgency is that of the first rule that matches: an urgent term in
\* the text gives critical; else negative above 0.8 gives high; else a
\* high-priority term gives medium; else negative gives medium; else low.
C5_UrgencyRuleOrder ==
  Categorized =>
    LET urgent == ContainsAnyOf(text, urgentKeywords)
        priority == ContainsAnyOf(text, highPriorityKeywords)
        negative == sentiment.sentiment = "negative"
        above08 == RatLess(<<8, 10>>, sentiment.confidence)
        urgency == categorization.urgency
    IN  /\ urgent => urgency = "critical"
        /\ (~urgent /\ negative /\ above08) => urgency = "high"
        /\ (~urgent /\ ~(negative /\ above08) /\ priority) => urgency = "medium"
        /\ (~urgent /\ negative /\ ~above08 /\ ~priority) => urgency = "medium"
        /\ (~urgent /\ ~negative /\ ~priority) => urgency = "low"

\* C5 witness: negative above 0.8 with a high-priority term and no urgent term
C5_Witness ==
  /\ Categorized
  /\ sentiment.sentiment = "negative"
  /\ RatLess(<<8, 10>>, sentiment.confidence)
  /\ ContainsAnyOf(text, highPriorityKeywords)
  /\ ~ContainsAnyOf(text, urgentKeywords)
  /\ categorization.urgency = "high"

\* C6: a text containing "urgent" in any letter case is critical, whatever
\* the sentiment and the confidence of the analysis.
C6_UrgentIsCritical ==
  (Categorized /\ ContainsAnyCase(text, <<"u","r","g","e","n","t">>))
    => categorization.urgency = "critical"

\* C6 witness: "Urgent" inside a longer word, with a positive analysis
C6_Witness ==
  /\ Categorized
  /\ text = <<"u","n","U","r","g","e","n","t">>
  /\ sentiment.sentiment = "positive"
  /\ sentiment.confidence = <<1, 2>>
  /\ categorization.urgency = "critical"

\* C7: actionRequired is true exactly when the urgency is critical or high,
\* or the sentiment is negative with a confidence above 0.7.
C7_ActionRequired ==
  Categorized =>
    (categorization.actionRequired = TRUE
       <=> \/ categorization.urgency \in {"critical", "high"}
           \/ /\ sentiment.sentiment = "negative"
              /\ RatLess(<<7, 10>>, sentiment.confidence))

\* C7 witness: negative at 0.75 is only medium, yet requires action
C7_Witness ==
  /\ Categorized
  /\ categorization.urgency = "medium"
  /\ sentiment.sentiment = "negative"
  /\ sentiment.confidence = <<3, 4>>
  /\ categorization.actionRequired = TRUE

\* C8: primaryCategory is the first category of the analysis, or "General
\* Feedback" when it has none; secondaryCategories are its second and third
\* category, in order.
C8_PrimaryAndSecondary ==
  Categorized =>
    LET categories == sentiment.categories
        last == IF Len(categories) < 3 THEN Len(categories) ELSE 3
    IN  /\ categorization.primaryCategory =
             (IF Len(categories) = 0 THEN "General Feedback" ELSE categories[1])
        /\ categorization.secondaryCategories = [i \in 1..(last - 1) |-> categories[i + 1]]
        /\ Len(categorization.secondaryCategories) <= 2

\* C8 witness: an analysis with four categories keeps the second and third
C8_Witness ==
  /\ Categorized
  /\ Len(sentiment.categories) = 4
  /\ Len(categorization.secondaryCategories) = 2
  /\ categorization.primaryCategory = sentiment.categories[1]

\* C9: suggestedActions has at most 5 entries and no entry twice.
C9_SuggestedActionsBound ==
  Categorized =>
    LET actions == categorization.suggestedActions
    IN  /\ Len(actions) <= 5
        /\ \A i, j \in 1..Len(actions) : actions[i] = actions[j] => i = j

\* C9 witness: negative, critical and a mapped category offer six actions
C9_Witness ==
  /\ Categorized
  /\ sentiment.sentiment = "negative"
  /\ categorization.urgency = "critical"
  /\ categorization.primaryCategory = "Technical Issues"
  /\ Len(categorization.suggestedActions) = 5

\* C10: generateInsights of an empty collection returns the percentages 0,
\* no top category, no urgent issue, no actionable item and a stable trend.
C10_EmptyCollection ==
  (pc = "aggregated" /\ Len(responses) = 0) =>
    /\ insights.overallSentiment.positive = 0
    /\ insights.overallSentiment.neutral = 0
    /\ insights.overallSentiment.negative = 0
    /\ insights.topCategories = <<>>
    /\ insights.urgentIssues = 0
    /\ insights.actionableItems = 0
    /\ insights.trendAnalysis.sentimentTrend = "stable"

\* C10 witness: the empty collection has been aggregated
C10_Witness ==
  /\ pc = "aggregated"
  /\ responses = <<>>
  /\ insights.trendAnalysis.sentimentTrend = "stable"

\* generateInsights has returned for the collection of this run
Aggregated == pc = "aggregated"

\* the share of positive items among items first..last of the collection
PositiveFraction(items, first, last) ==
  <<Cardinality({i \in first..last : items[i].sentiment = "positive"}), last - first + 1>>

\* C11: with recent the last 10 items and older the items before them, the
\* trend is improving if the positive share of recent exceeds that of older
\* by more than 0.1, declining if it falls short by more than 0.1, and stable
\* otherwise, a difference of exactly 0.1 included; 10 items or fewer are
\* stable.
C11_TrendRule ==
  Aggregated =>
    LET n == Len(responses)
        trend == insights.trendAnalysis.sentimentTrend
    IN  IF n <= 10 THEN trend = "stable"
        ELSE LET r == PositiveFraction(responses, n - 9, n)
                 o == PositiveFraction(responses, 1, n - 10)
                 \* 10 * (r - o) as a fraction over 10 * r[2] * o[2]
                 diff == 10 * (r[1] * o[2] - o[1] * r[2])
                 tenth == r[2] * o[2]
             IN  trend = (IF diff > tenth THEN "improving"
                          ELSE IF diff < 0 - tenth THEN "declining"
                          ELSE "stable")

\* the number of items of the collection with the given sentiment
SentimentTotal(items, s) ==
  Cardinality({i \in 1..Len(items) : items[i].sentiment = s})

\* p is count / total * 100 rounded to the nearest integer, halves upwards
IsRoundedPercent(p, count, total) ==
  /\ 200 * count - total < 2 * p * total
  /\ 2 * p * total <= 200 * count + total

PercentSum ==
  insights.overallSentiment.positive + insights.overallSentiment.neutral
    + insights.overallSentiment.negative

\* every item carries one of the three sentiment values
AllAnalyzed(items) ==
  \A i \in 1..Len(items) : items[i].sentiment \in {"positive", "neutral", "negative"}

\* C12: for a non-empty collection whose items all carry a sentiment, each
\* percentage is round(count / total * 100) of its own bucket, and the three
\* percentages sum to 99, 100 or 101.
C12_RoundedPercentages ==
  (Aggregated /\ Len(responses) > 0 /\ AllAnalyzed(responses)) =>
    /\ \A s \in {"positive", "neutral", "negative"} :
         IsRoundedPercent(insights.overallSentiment[s],
                          SentimentTotal(responses, s), Len(responses))
    /\ PercentSum \in {99, 100, 101}

\* C12 witness: three thirds, each rounded down to 33
C12_Witness ==
  /\ Aggregated
  /\ Len(responses) = 3
  /\ AllAnalyzed(responses)
  /\ PercentSum = 99

\* the category list of an item, empty when it has none
CategoriesOf(item) ==
  IF "categories" \in DOMAIN item.metadata THEN item.metadata.categories ELSE <<>>

\* the categories some item of the collection carries
CategoriesIn(items) ==
  UNION {{CategoriesOf(items[i])[k] : k \in 1..Len(CategoriesOf(items[i]))} :
           i \in 1..Len(items)}

\* how often the category appears over all items' category lists
Appearances(items, c) ==
  Cardinality({ik \in (1..Len(items)) \X (1..10) :
                 /\ ik[2] <= Len(CategoriesOf(items[ik[1]]))
                 /\ CategoriesOf(items[ik[1]])[ik[2]] = c})

\* where the category is first encountered: <<item, place in its list>>
FirstSeen(items, c) ==
  LET i == CHOOSE i \in 1..Len(items) :
             /\ c \in {CategoriesOf(items[i])[k] : k \in 1..Len(CategoriesOf(items[i]))}
             /\ \A h \in 1..(i - 1) :
                  c \notin {CategoriesOf(items[h])[k] : k \in 1..Len(CategoriesOf(items[h]))}
      k == CHOOSE k \in 1..Len(CategoriesOf(items[i])) :
             /\ CategoriesOf(items[i])[k] = c
             /\ \A h \in 1..(k - 1) : CategoriesOf(items[i])[h] # c
  IN  <<i, k>>

SeenBefore(items, c, d) ==
  LET a == FirstSeen(items, c)
      b == FirstSeen(items, d)
  IN  a[1] < b[1] \/ (a[1] = b[1] /\ a[2] < b[2])

\* the categories that come before c: a higher count, or the same count and
\* encountered earlier
Ahead(items, c) ==
  {d \in CategoriesIn(items) \ {c} :
     \/ Appearances(items, d) > Appearances(items, c)
     \/ (Appearances(items, d) = Appearances(items, c) /\ SeenBefore(items, d, c))}

\* the items carrying the category
Carriers(items, c) ==
  {i \in 1..Len(items) :
     c \in {CategoriesOf(items[i])[k] : k \in 1..Len(CategoriesOf(items[i]))}}

\* s is the most frequent sentiment among the carriers of c, a tie going to
\* positive before neutral before negative
IsDominant(items, c, s) ==
  LET n(x) == Cardinality({i \in Carriers(items, c) : items[i].sentiment = x})
      rank(x) == CASE x = "positive" -> 1 [] x = "neutral" -> 2 [] x = "negative" -> 3
  IN  \A x \in {"positive", "neutral", "negative"} \ {s} :
        n(s) > n(x) \/ (n(s) = n(x) /\ rank(s) < rank(x))

\* C13: topCategories holds at most 5 entries, ordered by count descending
\* with equal counts in the order of first encounter; an entry's count is the
\* number of appearances of its category and its sentiment the most frequent
\* sentiment among the items carrying it (ties: positive, neutral, negative).
C13_TopCategories ==
  (Aggregated /\ Len(responses) > 0) =>
    LET top == insights.topCategories
        all == CategoriesIn(responses)
    IN  /\ Len(top) = (IF Cardinality(all) < 5 THEN Cardinality(all) ELSE 5)
        /\ \A c \in all :
             Cardinality(Ahead(responses, c)) < 5 =>
               LET e == top[Cardinality(Ahead(responses, c)) + 1]
               IN  /\ e.category = c
                   /\ e.count = Appearances(responses, c)
                   /\ (\A i \in Carriers(responses, c) : responses[i].sentiment # "null")
                        => IsDominant(responses, c, e.sentiment)

\* C13 witness: six categories, of which five are kept, two of them with
\* equal counts and one of them with a tie between two sentiments
C13_Witness ==
  /\ Aggregated
  /\ Cardinality(CategoriesIn(responses)) = 6
  /\ Len(insights.topCategories) = 5
  /\ insights.topCategories[1].count = 2
  /\ insights.topCategories[2].count = 2
  /\ insights.topCategories[1].sentiment = "neutral"
  /\ \E i \in Carriers(responses, insights.topCategories[1].category) :
       responses[i].sentiment = "negative"

\* C14: urgentIssues is the number of items whose urgency is high or
\* critical and actionableItems the number of items whose actionRequired is
\* true; items without these fields count for neither.
C14_UrgentAndActionable ==
  Aggregated =>
    /\ insights.urgentIssues =
         Cardinality({i \in 1..Len(responses) :
                        /\ "urgency" \in DOMAIN responses[i].metadata
                        /\ \/ responses[i].metadata.urgency = "high"
                           \/ responses[i].metadata.urgency = "critical"})
    /\ insights.actionableItems =
         Cardinality({i \in 1..Len(responses) :
                        /\ "actionRequired" \in DOMAIN responses[i].metadata
                        /\ responses[i].metadata.actionRequired = TRUE})

\* C14 witness: a high item that requires no action beside an item without
\* metadata
C14_Witness ==
  /\ Aggregated
  /\ Len(responses) = 2
  /\ "urgency" \in DOMAIN responses[1].metadata
  /\ responses[1].metadata.urgency = "high"
  /\ DOMAIN responses[2].metadata = {}
  /\ insights.urgentIssues = 1
  /\ insights.actionableItems = 0

\* C15: the three operations are total: for every text, every analysis and
\* every collection whose category lists hold arbitrary strings, the call
\* returns a result with every documented field and raises no error.
C15_Total ==
  /\ pc \in {"analyzed", "categorized"} /\ op = "analyze" =>
       DOMAIN analysis = {"sentiment", "confidence", "categories", "keywords", "emotions"}
  /\ pc = "categorized" =>
       DOMAIN categorization = {"primaryCategory", "secondaryCategories", "urgency",
                                "actionRequired", "suggestedActions"}
  /\ pc = "aggregated" =>
       DOMAIN insights = {"overallSentiment", "topCategories", "urgentIssues",
                          "actionableItems", "trendAnalysis"}

WholeWordAt(t, keyword, i) ==
  /\ i + Len(keyword) <= Len(t)
  /\ i = 0 \/ t[i] \notin WordChars
  /\ i + Len(keyword) = Len(t) \/ t[i + Len(keyword) + 1] \notin WordChars
  /\ \A k \in 1..Len(keyword) : ToLowerChar(t[i + k]) = keyword[k]

\* the number of whole-word occurrences in t of the keywords of category k
KeywordOccurrences(t, k) ==
  LET keywords == CATEGORY_KEYWORDS[k].keywords
  IN  Cardinality({ p \in (1..Len(keywords)) \X (0..Len(t)) :
                      WholeWordAt(t, keywords[p[1]], p[2]) })

\* the occurrences of every category, as a tuple in declaration order
OccurrencesIn(t) == [k \in 1..Len(CATEGORY_KEYWORDS) |-> KeywordOccurrences(t, k)]

CategoriesPresent(occurrences) ==
  {k \in 1..Len(CATEGORY_KEYWORDS) : occurrences[k] > 0}

\* category j comes before category k: more occurrences, or as many and
\* declared earlier
CategoryAhead(occurrences, j, k) ==
  \/ occurrences[j] > occurrences[k]
  \/ occurrences[j] = occurrences[k] /\ j < k

CategoryRank(occurrences, k) ==
  Cardinality({j \in CategoriesPresent(occurrences) : CategoryAhead(occurrences, j, k)})

\* C17: the categories of an analysis are exactly the categories with at
\* least one case-insensitive whole-word occurrence of a keyword in the
\* original text, ordered by number of occurrences descending, equal numbers
\* in declaration order, cut to the first 3; a keyword inside a longer word
\* does not count.
C17_CategoriesByOccurrence ==
  Analyzed =>
    \E occurrences \in {OccurrencesIn(text)} :
      /\ Len(analysis.categories) =
           IF Cardinality(CategoriesPresent(occurrences)) > 3
           THEN 3 ELSE Cardinality(CategoriesPresent(occurrences))
      /\ \A k \in CategoriesPresent(occurrences) :
           CategoryRank(occurrences, k) < 3 =>
             analysis.categories[CategoryRank(occurrences, k) + 1]
               = CATEGORY_KEYWORDS[k].category

\* C17 witness: two categories occur once each and come back in declaration
\* order, the reverse of their order in the text, while a keyword of a third
\* category occurs only inside a longer word
C17_Witness ==
  /\ Analyzed
  /\ Len(analysis.categories) = 2
  /\ \E j, k \in 1..Len(CATEGORY_KEYWORDS) :
       /\ j < k
       /\ KeywordOccurrences(text, j) = 1
       /\ KeywordOccurrences(text, k) = 1
       /\ \E a, b \in 0..Len(text) :
            /\ b < a
            /\ \E w \in 1..Len(CATEGORY_KEYWORDS[j].keywords) :
                 WholeWordAt(text, CATEGORY_KEYWORDS[j].keywords[w], a)
            /\ \E w \in 1..Len(CATEGORY_KEYWORDS[k].keywords) :
                 WholeWordAt(text, CATEGORY_KEYWORDS[k].keywords[w], b)
  /\ \E k \in 1..Len(CATEGORY_KEYWORDS) :
       /\ KeywordOccurrences(text, k) = 0
       /\ \E w \in 1..Len(CATEGORY_KEYWORDS[k].keywords), i \in 0..Len(text) :
            MatchesAtAnywhere(text, CATEGORY_KEYWORDS[k].keywords[w], i)

\* the tokens of the text that may become keywords, in text order
KeywordTokens(t) ==
  SelectSeq(split(replaceNonWord(toLowerCase(t))),
            LAMBDA w : Len(w) > 3 /\ ~ArrIncludes(stopWords, w))

TokenFrequency(tokens, w) == Cardinality({i \in 1..Len(tokens) : tokens[i] = w})

TokenFirst(tokens, w) == CHOOSE i \in 1..Len(tokens) :
                           tokens[i] = w /\ \A j \in 1..(i - 1) : tokens[j] # w

\* token v comes before token w: more frequent, or as frequent and met earlier
TokenAhead(tokens, v, w) ==
  \/ TokenFrequency(tokens, v) > TokenFrequency(tokens, w)
  \/ /\ TokenFrequency(tokens, v) = TokenFrequency(tokens, w)
     /\ TokenFirst(tokens, v) < TokenFirst(tokens, w)

TokenRank(tokens, w) ==
  Cardinality({v \in {tokens[i] : i \in 1..Len(tokens)} : TokenAhead(tokens, v, w)})

\* C18: the keywords of an analysis are at most 5 distinct tokens of length
\* above 3 outside the stop-word list, ordered by frequency descending, and
\* tokens of equal frequency in the order of their first occurrence in the
\* text, tokens made only of digits included.
C18_KeywordOrder ==
  Analyzed =>
    \E tokens \in {KeywordTokens(text)} :
      /\ Len(analysis.keywords) <= 5
      /\ Len(analysis.keywords) =
           IF Cardinality({tokens[i] : i \in 1..Len(tokens)}) > 5
           THEN 5 ELSE Cardinality({tokens[i] : i \in 1..Len(tokens)})
      /\ \A i \in 1..Len(tokens) :
           TokenRank(tokens, tokens[i]) < 5 =>
             analysis.keywords[TokenRank(tokens, tokens[i]) + 1] = tokens[i]

\* the keyword is a substring of t once t is in lower case
OccursIn(t, keyword) ==
  \E i \in 0..(Len(t) - Len(keyword)) :
    \A c \in 1..Len(keyword) : ToLowerChar(t[i + c]) = keyword[c]

\* the number of distinct keywords of emotion k that occur in t
EmotionHits(t, k) ==
  Cardinality({j \in 1..Len(EMOTION_KEYWORDS[k].keywords) :
                 OccursIn(t, EMOTION_KEYWORDS[k].keywords[j])})

\* C19: for each of the six emotions the score is min(1, k * 0.3), k being
\* the number of distinct keywords of the emotion that are substrings of the
\* lower-cased text (repeats count once, a keyword inside a longer word
\* counts); so every score is in [0, 1] and is 1 exactly when k >= 4.
C19_EmotionScores ==
  Analyzed =>
    /\ DOMAIN analysis.emotions = {"joy", "anger", "fear", "sadness", "surprise", "disgust"}
    /\ \A k \in 1..Len(EMOTION_KEYWORDS) :
         \E hits \in {EmotionHits(text, k)} :
           \E score \in {analysis.emotions[EMOTION_KEYWORDS[k].emotion]} :
             /\ score = IF 3 * hits >= 10 THEN Rat(1, 1) ELSE Rat(3 * hits, 10)
             /\ RatLeq(Rat(0, 1), score) /\ RatLeq(score, Rat(1, 1))
             /\ score = Rat(1, 1) <=> hits >= 4

\* C19 witness: four keywords of joy occur, one of them twice, one with a
\* capital and one inside a longer word
C19_Witness ==
  /\ Analyzed
  /\ EmotionHits(text, 1) = 4
  /\ Cardinality({i \in 0..(Len(text) - 3) :
                    SubSeq(text, i + 1, i + 3) = <<"j","o","y">>}) = 2
  /\ analysis.emotions.joy = Rat(1, 1)
  /\ \E i \in 1..(Len(text) - 6) :
       /\ text[i] \in WordChars
       /\ SubSeq(text, i + 1, i + 6) = <<"e","l","a","t","e","d">>
  /\ analysis.emotions.sadness = Rat(0, 1)

\* submitResponse has run and the row of the response is in form_responses
Stored == op = "submit" /\ pc \in {"submitted", "failed"} /\ Len(form_responses) > 0

\* the string answers longer than 10 characters, in their order
LongAnswers ==
  LET kept == SelectSeq(submission.responseData,
                LAMBDA v : v.type = "string" /\ ~(Len(v.value) <= 10))
  IN  [i \in 1..Len(kept) |-> kept[i].value]

\* the analysed text is made of the long answers alone
ShortAnswersExcluded == textResponses = join(LongAnswers)

\* C20 as stated: answers of 10 characters or fewer are left out of the
\* analysed text, and when no answer qualifies the analysis is skipped and the
\* stored response has sentiment, urgency and categories all unset.
C20_AllUnset ==
  Stored =>
    /\ ShortAnswersExcluded
    /\ Len(LongAnswers) = 0 =>
         /\ form_responses[1].metadata.sentimentAnalysis = Null
         /\ form_responses[1].metadata.categorization = Null
         /\ form_responses[1].sentiment = "null"
         /\ "urgency" \notin DOMAIN form_responses[1].metadata
         /\ "categories" \notin DOMAIN form_responses[1].metadata

\* C20 amended: answers of 10 characters or fewer are left out of the analysed
\* text, and when no answer qualifies the analysis is skipped and the stored
\* response has sentiment null, urgency "low" and an empty list of categories.
C20_SkippedDefaults ==
  Stored =>
    /\ ShortAnswersExcluded
    /\ Len(LongAnswers) = 0 =>
         /\ form_responses[1].metadata.sentimentAnalysis = Null
         /\ form_responses[1].metadata.categorization = Null
         /\ form_responses[1].sentiment = "null"
         /\ form_responses[1].metadata.urgency = "low"
         /\ form_responses[1].metadata.categories = <<>>

\* C20 witness: a submission with an answer of exactly 10 characters and no
\* longer one has been stored
C20_Witness ==
  /\ Stored
  /\ pc = "submitted"
  /\ Len(LongAnswers) = 0
  /\ \E i \in 1..Len(submission.responseData) :
       /\ submission.responseData[i].type = "string"
       /\ Len(submission.responseData[i].value) = 10
  /\ form_responses[1].metadata.urgency = "low"

\* getFormAnalytics has handed a collection to generateInsights
Reported == op = "analytics" /\ pc = "reported"

\* the positions of the recent window of a collection of n items: the last 10
RecentWindow(n) == {i \in 1..n : i > n - TrendWindow}

\* C21: when analytics are computed, the collection handed to generateInsights
\* is in chronological order, so that the recent window used for the trend
\* (the last 10 items) holds the 10 most recently submitted responses and the
\* older window holds the earlier ones.
C21_Chronological ==
  Reported =>
    /\ \A i, j \in 1..Len(fetched) :
         i < j => fetched[i].submitted_at <= fetched[j].submitted_at
    /\ \A i \in RecentWindow(Len(fetched)) :
         \A j \in (1..Len(fetched)) \ RecentWindow(Len(fetched)) :
           fetched[j].submitted_at <= fetched[i].submitted_at

\* the words of a lexicon
LexiconWords(lexicon) == {lexicon[k] : k \in 1..Len(lexicon)}

\* C22: the positive, negative and neutral lexicons are pairwise disjoint, so
\* each token increments at most one of the three counters (every counter is
\* the number of tokens found in its own lexicon) and p+n+u never exceeds
\* the number of tokens of length > 2.
C22_DisjointLexicons ==
  Analyzed =>
    LET words == sentimentWords(text)
        p == scoreOf(words, "positive")
        n == scoreOf(words, "negative")
        u == scoreOf(words, "neutral")
    IN  /\ LexiconWords(POSITIVE_KEYWORDS) \cap LexiconWords(NEGATIVE_KEYWORDS) = {}
        /\ LexiconWords(POSITIVE_KEYWORDS) \cap LexiconWords(NEUTRAL_KEYWORDS) = {}
        /\ LexiconWords(NEGATIVE_KEYWORDS) \cap LexiconWords(NEUTRAL_KEYWORDS) = {}
        /\ p = LexiconHits(words, POSITIVE_KEYWORDS)
        /\ n = LexiconHits(words, NEGATIVE_KEYWORDS)
        /\ u = LexiconHits(words, NEUTRAL_KEYWORDS)
        /\ p + n + u <= Len(words)
        /\ \A i \in 1..Len(words) : Len(words[i]) > 2

\* C22 witness: a text of three tokens was analyzed, two of them counted by
\* the negative lexicon and one by none
C22_Witness ==
  /\ Analyzed
  /\ Len(sentimentWords(text)) = 3
  /\ scoreOf(sentimentWords(text), "negative") = 2
  /\ scoreOf(sentimentWords(text), "positive") = 0
  /\ scoreOf(sentimentWords(text), "neutral") = 0

\* the actions named for a sentiment and an urgency
SentimentActions(s, urgency) ==
  IF s = "negative"
  THEN <<"Follow up with customer within 24 hours", "Investigate the reported issue">>
         \o (IF urgency = "critical"
             THEN <<"Escalate to management immediately",
                    "Provide immediate resolution or workaround">>
             ELSE <<>>)
  ELSE IF s = "positive"
  THEN <<"Thank the customer for positive feedback",
         "Share feedback with relevant team",
         "Consider featuring as testimonial">>
  ELSE <<>>

\* the categories that have actions of their own
MappedCategories ==
  {"Technical Issues", "Customer Service", "Product Quality", "User Experience",
   "Performance"}

\* the two actions of a mapped category
CategoryActions(category) ==
  CASE category = "Technical Issues" ->
         <<"Forward to technical support team", "Create bug report if applicable">>
    [] category = "Customer Service" ->
         <<"Review with customer service manager",
           "Provide additional training if needed">>
    [] category = "Product Quality" ->
         <<"Forward to product development team", "Consider for product roadmap">>
    [] category = "User Experience" ->
         <<"Share with UX/UI design team", "Consider for next design iteration">>
    [] category = "Performance" ->
         <<"Forward to engineering team", "Monitor system performance metrics">>
    [] OTHER -> <<>>

EscalationActions ==
  {"Escalate to management immediately", "Provide immediate resolution or workaround"}

\* C23: suggestedActions is the first 5 entries of the sentiment's actions (for
\* negative the 2 follow-up actions, followed by the 2 escalation actions
\* only when urgency is critical; for positive the 3 thank-you actions; for
\* neutral nothing) followed by the 2 actions of primaryCategory when it is
\* a mapped category. So escalation actions appear only for negative and
\* critical, and the list is empty exactly when the sentiment is neutral and
\* primaryCategory is unmapped.
C23_SuggestedActions ==
  Categorized =>
    LET actions == categorization.suggestedActions
        all == SentimentActions(sentiment.sentiment, categorization.urgency)
                 \o CategoryActions(categorization.primaryCategory)
    IN  /\ actions = SubSeq(all, 1, IF Len(all) < 5 THEN Len(all) ELSE 5)
        /\ (\E i \in 1..Len(actions) : actions[i] \in EscalationActions)
             => sentiment.sentiment = "negative" /\ categorization.urgency = "critical"
        /\ actions = <<>>
             <=> /\ sentiment.sentiment = "neutral"
                 /\ categorization.primaryCategory \notin MappedCategories

\* C23 witness: negative and critical with a mapped category: the escalation
\* actions are third and fourth and only the first category action remains
C23_Witness ==
  /\ Categorized
  /\ sentiment.sentiment = "negative"
  /\ categorization.urgency = "critical"
  /\ categorization.primaryCategory = "Customer Service"
  /\ categorization.suggestedActions[3] = "Escalate to management immediately"
  /\ categorization.suggestedActions[5] = "Review with customer service manager"

\* call c was a call of that operation and has returned success
Succeeded(c, operation) ==
  /\ calls[c].op = operation
  /\ calls[c].pc = "returned"
  /\ calls[c].result.success

\* C24: updateFeedback applies optimistic locking: if another update to the
\* same feedback commits after the caller read its current data and before
\* the caller writes, the caller's update is rejected and not written. So of
\* two interleaved updates of one feedback that both read its current data
\* before either wrote (both read the same stored row), at most one succeeds.
C24_OptimisticLocking ==
  \A a, b \in DOMAIN calls :
    ( /\ a # b
      /\ calls[a].updateData.id = calls[b].updateData.id
      /\ calls[a].pc = "returned" /\ calls[b].pc = "returned"
      /\ calls[a].op = "updateFeedback" /\ calls[b].op = "updateFeedback"
      /\ calls[a].currentData = calls[b].currentData
      /\ calls[a].currentData # Unset )
    => ~(calls[a].result.success /\ calls[b].result.success)

\* call c is in, or has left, one of the two loops that try a write again
InRetryLoop(c) ==
  /\ calls[c].op \in {"updateFeedback", "deleteFeedback"}
  /\ calls[c].attempt >= 1

\* the result of call c is the failure with that message
FailedWith(c, error) ==
  calls[c].pc = "returned" /\ calls[c].result = Failure(error)

\* what holds of the attempts of call c at any time
BoundedRetries(c) ==
  InRetryLoop(c) =>
    /\ calls[c].attempt <= 3
    /\ calls[c].written <= calls[c].attempt
    /\ calls[c].op = "deleteFeedback" /\ calls[c].pc = "returned"
         => calls[c].written = calls[c].attempt
    /\ calls[c].pc = "returned" /\ calls[c].result.success
         => calls[c].written >= 1
    /\ FailedWith(c, "Failed after 3 attempts") => calls[c].attempt = 3
    /\ ( \/ FailedWith(c, "Feedback not found or has been deleted")
         \/ FailedWith(c, "Feedback has been modified by another user. Please refresh and try again.") )
         => calls[c].written < calls[c].attempt

\* what holds of every step of call c: a call that returned does nothing
\* more, an attempt issues at most one write, and the table changes only
\* with the write after which the call returns success
RetryStep(c) ==
  /\ calls[c].pc = "returned" => calls'[c] = calls[c]
  /\ calls'[c].written <= calls[c].written + 1
  /\ calls'[c].attempt <= calls[c].attempt + 1
  /\ (InRetryLoop(c) /\ calls'[c] # calls[c] /\ form_responses' # form_responses)
       => /\ calls'[c].pc = "returned" /\ calls'[c].result.success
          /\ calls'[c].written = calls[c].written + 1
          /\ calls'[c].attempt = calls[c].attempt
  /\ (InRetryLoop(c) /\ calls'[c].attempt = calls[c].attempt + 1)
       => form_responses' = form_responses

\* C25: updateFeedbackInDatabase and deleteFeedbackFromDatabase always
\* terminate after at most 3 attempts of the database write: they return
\* success on the first attempt that succeeds and make no further attempt,
\* return 'Failed after 3 attempts' when all 3 fail, and in
\* updateFeedbackInDatabase a missing record or a version mismatch returns
\* failure at once, without another attempt and without a write.
C25_BoundedRetries ==
  /\ [](\A c \in DOMAIN calls : BoundedRetries(c))
  /\ [][\A c \in DOMAIN calls : RetryStep(c)]_vars
  /\ \A c \in Callers : <>(calls[c].pc = "returned")

\* C25 witness: an update returned success with its third attempt, after one
\* attempt without a write and one with a write that failed
C25_Witness ==
  \E c \in DOMAIN calls :
    /\ calls[c].op = "updateFeedback" /\ calls[c].pc = "returned"
    /\ calls[c].result.success
    /\ calls[c].attempt = 3 /\ calls[c].written = 2

\* call c is an updateFeedback whose data are invalid, or whose caller has
\* no session, or whose caller does not own the form of the feedback
Unauthorized(c) ==
  /\ calls[c].op = "updateFeedback"
  /\ \/ Len(validateFeedbackData(calls[c].updateData, DEFAULT_VALIDATION_RULES)) > 0
     \/ calls[c].user = NoUser
     \/ \E i \in 1..Len(form_responses) :
          /\ form_responses[i].id = calls[c].updateData.id
          /\ forms[form_responses[i].form_id].user_id # calls[c].user

\* C26: updateFeedback never propagates an error to its caller: every outcome
\* is a result record with success true or false (and an error message when
\* false). When validation fails, or the user is unauthenticated or does not
\* own the form, the result has success false and the stored feedback is
\* left unchanged: the call issues no write and no step of it changes a
\* table.
C26_NoWriteWhenRejected ==
  /\ [](\A c \in DOMAIN calls :
          (calls[c].op = "updateFeedback" /\ calls[c].pc = "returned") =>
            /\ DOMAIN calls[c].result \subseteq
                 {"success", "error", "validationErrors", "data", "version"}
            /\ "success" \in DOMAIN calls[c].result
            /\ calls[c].result.success \in BOOLEAN
            /\ ~calls[c].result.success => "error" \in DOMAIN calls[c].result
            /\ Unauthorized(c) => ~calls[c].result.success /\ calls[c].written = 0)
  /\ [][\A c \in DOMAIN calls :
          (Unauthorized(c) /\ calls'[c] # calls[c]) =>
            /\ calls'[c].written = 0
            /\ UNCHANGED <<form_responses, form_response_data, forms>>]_vars

\* C26 witness: an update of a feedback of another user's form was refused
C26_Witness ==
  \E c \in DOMAIN calls :
    /\ calls[c].op = "updateFeedback" /\ calls[c].user = "user-2"
    /\ calls[c].updateData.id = 1
    /\ FailedWith(c, "Insufficient permissions to update this feedback")
    /\ calls[c].written = 0
    /\ \E i \in 1..Len(form_responses) :
         form_responses[i].id = 1 /\ form_responses[i].metadata = EmptyMetadata

\* no call is under way
Quiescent ==
  /\ \A c \in DOMAIN calls : calls[c].pc = "returned"
  /\ op = "submit" => pc # "start"

\* the number of responses stored for form f
StoredFor(f) == Cardinality({i \in 1..Len(form_responses) : form_responses[i].form_id = f})

\* C27: after any sequence of response submissions and deletions (by
\* FormService.deleteFeedbackResponse or FeedbackUpdateService.deleteFeedback),
\* a form's response_count equals the number of responses currently stored
\* for that form.
C27_ResponseCount ==
  Quiescent => \A f \in DOMAIN forms : forms[f].response_count = StoredFor(f)

\* C28: for every text and the analysis analyzeSentiment returns for it,
\* categorizeFeedback returns urgency low only if the sentiment is not
\* negative, and then actionRequired is false; conversely every negative
\* analysis yields urgency medium, high or critical.
C28_LowUrgency ==
  (op = "analyze" /\ pc = "categorized") =>
    /\ sentiment = analysis
    /\ categorization.urgency = "low"
         => sentiment.sentiment # "negative" /\ ~categorization.actionRequired
    /\ sentiment.sentiment = "negative"
         => categorization.urgency \in {"medium", "high", "critical"}

\* C28 witness: a negative analysis of low confidence, of a text without any
\* of the urgency words, was categorized as medium
C28_Witness ==
  /\ op = "analyze" /\ pc = "categorized"
  /\ sentiment.sentiment = "negative"
  /\ RatLeq(sentiment.confidence, Rat(8, 10))
  /\ categorization.urgency = "medium"
  /\ ~someIncluded(highPriorityKeywords, toLowerCase(text))

\* the items of the collection without a sentiment
Unanalyzed(items) == {i \in 1..Len(items) : items[i].sentiment = "null"}

\* s is the most frequent sentiment among the carriers of c when a carrier
\* without a sentiment counts as neutral, a tie going to positive before
\* neutral before negative
IsDominantWithNeutral(items, c, s) ==
  LET counted(i) == IF items[i].sentiment = "null" THEN "neutral" ELSE items[i].sentiment
      n(x) == Cardinality({i \in Carriers(items, c) : counted(i) = x})
      rank(x) == CASE x = "positive" -> 1 [] x = "neutral" -> 2 [] x = "negative" -> 3
  IN  \A x \in {"positive", "neutral", "negative"} \ {s} :
        n(s) > n(x) \/ (n(s) = n(x) /\ rank(s) < rank(x))

\* C29: in generateInsights an item without a sentiment is counted in the
\* denominator of the percentages but in none of the three buckets, and is
\* counted as neutral for the dominant sentiment of each category it
\* carries. So for a collection with such items the three percentages sum
\* to the share of the analyzed items up to rounding (less than 99 as soon
\* as more than one item in 40 has no sentiment), not to about 100.
C29_UnanalyzedItems ==
  (Aggregated /\ Cardinality(Unanalyzed(responses)) > 0) =>
    LET total == Len(responses)
        analyzed == total - Cardinality(Unanalyzed(responses))
        top == insights.topCategories
    IN  /\ \A s \in {"positive", "neutral", "negative"} :
             IsRoundedPercent(insights.overallSentiment[s],
                              SentimentTotal(responses, s), total)
        /\ 2 * (PercentSum * total - 100 * analyzed) <= 3 * total
        /\ 2 * (100 * analyzed - PercentSum * total) <= 3 * total
        /\ 40 * (total - analyzed) > total => PercentSum < 99
        /\ \A c \in CategoriesIn(responses) :
             Cardinality(Ahead(responses, c)) < 5 =>
               LET e == top[Cardinality(Ahead(responses, c)) + 1]
               IN  /\ e.category = c
                   /\ IsDominantWithNeutral(responses, c, e.sentiment)

\* C29 witness: one item without a sentiment and one negative item carry the
\* same category: the percentages sum to 50 and the category is neutral
C29_Witness ==
  /\ Aggregated
  /\ Len(responses) = 2
  /\ Cardinality(Unanalyzed(responses)) = 1
  /\ SentimentTotal(responses, "negative") = 1
  /\ PercentSum = 50
  /\ Len(insights.topCategories) = 1
  /\ insights.topCategories[1].count = 2
  /\ insights.topCategories[1].sentiment = "neutral"

\* the modification history stored with a feedback
HistoryOf(feedback) ==
  IF "modificationHistory" \in DOMAIN feedback.metadata
  THEN feedback.metadata.modificationHistory
  ELSE <<>>

\* C30: after any sequence of successful updateFeedback calls on a feedback,
\* its metadata.modificationHistory holds at most 10 entries, the most recent
\* modifications in the order applied: each successful update appends one
\* entry, of its caller, to the history stored before it and drops the
\* oldest entry when there would be more than 10.
C30_ModificationHistory ==
  [][\A c \in DOMAIN calls :
       ( /\ calls[c].op = "updateFeedback" /\ calls[c].pc = "checked"
         /\ calls'[c].pc = "returned" /\ calls'[c].result.success )
       => LET before == HistoryOf(form_responses[findRow(form_responses,
                                                       calls[c].updateData.id)])
              after == HistoryOf(calls'[c].result.data)
          IN  /\ Len(after) <= 10
              /\ Len(after) >= 1
              /\ after[Len(after)].userId = calls[c].user
              /\ after = lastOf(Append(before, after[Len(after)]), 10)
              /\ \A i, j \in 1..Len(after) :
                   i < j => after[i].timestamp < after[j].timestamp]_vars

====
